---- MODULE Spec2Model ----
(***************************************************************************)
(* xpass: a model of the clipboard countdown (ui package) and of the       *)
(* storage index with its decryption cache (storage and passcard           *)
(* packages).                                                              *)
(*                                                                         *)
(* Time is counted in ticks of the countdown ticker (200 ms).  The         *)
(* seconds the countdown computes with are float64 values, kept exactly;   *)
(* the fraction ui.countdown is kept as its numerator over the configured  *)
(* number of seconds.                                                      *)
(***************************************************************************)
EXTENDS Integers, Sequences, FiniteSets, TLC

\* ---------------------------------------------------------------- bounds
\* config.PasswordStoreClipSeconds (default 60), kept small here
ClipSeconds == 2
\* number of copy actions (each spawns one clearClipboard goroutine)
MaxCopies == 3

\* number of changes made to the store from outside the program
MaxEdits == 1
\* number of writes the program makes itself (edit-mode saves and creates)
MaxWrites == 1
\* number of user actions (key presses, clicks) the UI handles
MaxUiOps == 3

\* length of the search terms handed to Storage.Query
MaxTermLen == 3

\* length in bytes of the entry names handed to Storage.index
MaxNameLen == 43

\* number of changes of the search text the UI hands to the filter worker
MaxSubmits == 3

\* ------------------------------------------------------ program constants
\* tick := 200 * time.Millisecond, i.e. five ticks per second
TicksPerSecond == 5
\* countdownDone: make(chan bool, 1)
DoneCap == 1

\* notify.EventInfo channel: make(chan notify.EventInfo, 1)
EventCap == 1
\* const MaxLen = 40 in Storage.index
MaxLen == 40

\* queryInput: make(chan string, 64)
QueryInputCap == 64
\* queryResults: make(chan []passcard.StoredItem, 1)
ResultCap == 1
\* debounceDelay := 50 * time.Millisecond, counted in steps of 25 ms
DebounceTicks == 2

TotalTicks == ClipSeconds * TicksPerSecond

\* ------------------------------------------------------------- float64
\* remaining is a float64.  Every value the countdown meets is a multiple
\* of 2^-55 below 2^8: it is kept as that multiple, a number of 63 bits
\* written in three digits of 21 bits, the least significant first.  A
\* value that is <= 0 ends the loop and is kept as zero.
Limb == 2097152
\* 1.0 is 2^55, i.e. 2^13 in the third digit
Unit == 8192
\* bits of the significand of a float64
Mantissa == 53

\* float64(n) of an integer
Float(n) == <<0, 0, n * Unit>>

\* tick.Seconds() of 200 ms: the float64 next to 0.2, 0x1999999999999A * 2^-55
TickSeconds == <<1677722, 838860, 1638>>

\* x > 0
Positive(x) == x # <<0, 0, 0>>

\* a <= b
Leq(a, b) ==
  IF a[3] # b[3] THEN a[3] < b[3]
  ELSE IF a[2] # b[2] THEN a[2] < b[2]
  ELSE a[1] <= b[1]

\* the digits of a number whose digits have run over or under by one carry
Carry(x) ==
  LET c1 == IF x[1] < 0 THEN -1 ELSE IF x[1] >= Limb THEN 1 ELSE 0
      d2 == x[2] + c1
      c2 == IF d2 < 0 THEN -1 ELSE IF d2 >= Limb THEN 1 ELSE 0
  IN <<x[1] - c1 * Limb, d2 - c2 * Limb, x[3] + c2>>

\* the exact difference a - b, for a >= b
Diff(a, b) == Carry(<<a[1] - b[1], a[2] - b[2], a[3] - b[3]>>)

RECURSIVE BitLen(_)
\* the number of bits of n
BitLen(n) == IF n = 0 THEN 0 ELSE 1 + BitLen(n \div 2)

\* the float64 nearest to x, ties to the even significand; at most ten
\* bits are dropped, all of the first digit
Round(x) ==
  LET bits == IF x[3] > 0 THEN 42 + BitLen(x[3])
              ELSE IF x[2] > 0 THEN 21 + BitLen(x[2])
              ELSE BitLen(x[1])
      drop == bits - Mantissa
  IN IF drop <= 0 THEN x
     ELSE LET p == 2 ^ drop
              rem == x[1] % p
              trunc == x[1] - rem
              up == \/ 2 * rem > p
                    \/ 2 * rem = p /\ (trunc \div p) % 2 = 1
          IN Carry(<<IF up THEN trunc + p ELSE trunc, x[2], x[3]>>)

\* the number "%.0f" prints for x: the nearest integer, ties to even
Seconds(x) ==
  LET n == x[3] \div Unit
      frac == x[3] % Unit
      half == Unit \div 2
      more == frac > half \/ (frac = half /\ (x[2] > 0 \/ x[1] > 0))
  IN IF more \/ (frac = half /\ x[2] = 0 /\ x[1] = 0 /\ n % 2 = 1)
     THEN n + 1 ELSE n

\* ui.status: a message and the number formatted into it
St(msg) == [msg |-> msg, n |-> 0]

Empty == ""
Secrets == {"s1", "s2"}
Gor == 1..MaxCopies

VARIABLES
  clipboard,      \* the system clipboard (clipboard.WriteAll)
  status,         \* ui.status
  countdown,      \* ui.countdown, as numerator over ClipSeconds
  countingDown,   \* ui.countingDown
  countdownDone,  \* number of values buffered in ui.countdownDone
  clr,            \* clearClipboard goroutines: [pc, remaining]
  spawned,        \* number of clearClipboard goroutines started so far
  sinceCopy,      \* ticks delivered since the most recent copy (observer)
  disk,           \* the files of the store: path -> content, or NoFile
  events,         \* the channel c of Storage.watch
  dropped,        \* a notification was dropped on a full channel (observer)
  edits,          \* number of changes made from outside so far
  writes,         \* number of saves and creates so far
  uiOps,          \* number of user actions handled so far
  cache,          \* Storage.cache
  passwords,      \* Storage.passwords
  watcher,        \* the goroutine of Storage.watch: "idle" or "index"
  ia,             \* Storage.IndexAll per calling goroutine
  ui,             \* the UI goroutine inside decrypt, save or create
  query,          \* ui.query
  filtered,       \* ui.filtered
  selectedIdx,    \* ui.selectedIdx
  editMode,       \* ui.editMode
  createMode,     \* ui.createMode
  lastEv,         \* per path, the last operation on its cache entry (observer)
  got,            \* per path, what the last successful decrypt returned (observer)
  written,        \* per path, what the program last wrote to it (observer)
  call,           \* the latest call of StoredItem.decrypt (observer)
  boot,           \* storage.Init: its arguments and environment, s.path, err
  pipe,           \* the filter worker of the UI: its channels, timer, callbacks
  cacheMutex,     \* Storage.cacheMutex: [readers, writer]
  acc,            \* per goroutine, its position inside an access to the cache
  editPath,       \* path of the item edit mode was entered for (observer)
  copied          \* name of the item whose secret was copied last (observer)

clipOnly == <<clipboard, countdown, countingDown, countdownDone, clr,
              spawned, sinceCopy>>

lockVars == <<cacheMutex, acc>>

uiVars == <<query, filtered, selectedIdx, editMode, createMode>>

storageVars == <<disk, events, dropped, edits, writes, uiOps, cache,
                 passwords, watcher, ia, ui, uiVars, lastEv, got, written,
                 call, boot, pipe, lockVars, editPath, copied>>

vars == <<status, clipOnly, storageVars>>

\* ------------------------------------------------------------- strings
\* A Go string is kept as the sequence of its characters (paths, names, the
\* search term) or, for decrypted content, as the sequence of its lines.

HasPrefix(s, pre) ==
  /\ Len(s) >= Len(pre)
  /\ SubSeq(s, 1, Len(pre)) = pre

HasSuffix(s, suf) ==
  /\ Len(s) >= Len(suf)
  /\ SubSeq(s, Len(s) - Len(suf) + 1, Len(s)) = suf

TrimPrefix(s, pre) ==
  IF HasPrefix(s, pre) THEN SubSeq(s, Len(pre) + 1, Len(s)) ELSE s

TrimSuffix(s, suf) ==
  IF HasSuffix(s, suf) THEN SubSeq(s, 1, Len(s) - Len(suf)) ELSE s

\* the resolved root s.path, the entry suffix ".gpg" and the files of the
\* store the model follows: two entry files and one other file
Root == <<"/", "r">>
Gpg == <<".", "g", "p", "g">>
Sep == <<"/">>
Ellipsis == <<".", ".", ".">>
EntryNames == {<<"a">>, <<"b">>}
FullPath(name) == Root \o Sep \o name \o Gpg
PathA == FullPath(<<"a">>)
PathB == FullPath(<<"b">>)
PathN == Root \o Sep \o <<"n">>
EntryPaths == {FullPath(n) : n \in EntryNames}
FsPaths == EntryPaths \cup {PathN}
\* filepath.Walk visits the names of a directory in lexical order
WalkOrder == <<PathA, PathB, PathN>>

\* decrypted content as lines: NoFile stands for "no such file"; every Go
\* string has at least one line, "" being the single empty line
NoFile == <<>>
ZeroStr == <<"">>
P1 == <<"pw1", "m1">>
P2 == <<"pw2">>
\* the "\n" that createNewPassword hands to Create
NewContent == <<"", "">>
Plains == {P1, P2}
Other == <<"x">>
\* what disk holds for a path that is a directory
Dir == <<"<dir>">>

\* Storage.index: the display name of an entry path
NameOf(path) ==
  LET n1 == TrimPrefix(path, Root)
      n2 == TrimSuffix(n1, Gpg)
      n3 == TrimPrefix(n2, Sep)
  IN IF Len(n3) > MaxLen
     THEN Ellipsis \o SubSeq(n3, Len(n3) - MaxLen + 1, Len(n3))
     ELSE n3

\* passcard.StoredItem built by Storage.index
StoredItem(path) == [Name |-> NameOf(path), Path |-> path]

\* Storage.NameByIdx
NameByIdx(items, idx) ==
  IF idx >= Len(items) THEN <<>> ELSE items[idx + 1].Name

\* the paths of a slice of StoredItem
PathsOf(items) == {items[i].Path : i \in DOMAIN items}

\* ------------------------------------------------------------- the cache

\* Storage.GetCached: the value and the ok flag
GetCachedAlwaysMisses(c, path) == <<ZeroStr, FALSE>>

GetCached(c, path) ==
  IF path \in DOMAIN c THEN <<c[path], TRUE>> ELSE <<ZeroStr, FALSE>>

\* Storage.SetCached
SetCachedDropsValue(c, path, value) == c

SetCached(c, path, value) ==
  [q \in DOMAIN c \cup {path} |-> IF q = path THEN value ELSE c[q]]

\* Storage.invalidateCache
invalidateCacheKeepsEntry(c, path) == c

invalidateCache(c, path) ==
  IF HasSuffix(path, Gpg)
  THEN [q \in DOMAIN c \ {path} |-> c[q]]
  ELSE c

\* Storage.IndexAll, the prune under cacheMutex
Prune(c, newPaths) ==
  [q \in DOMAIN c \cap newPaths |-> c[q]]

\* StoredItem.Password and StoredItem.Metadata on the outcome of decrypt().
\* strings.SplitN(decrypted, "\n", 2): the first line, and the rest.
Password(decrypted, err) ==
  IF err THEN ZeroStr ELSE <<Head(decrypted)>>

Metadata(decrypted, err) ==
  IF err THEN ZeroStr
  ELSE IF Len(decrypted) < 2 THEN ZeroStr
  ELSE Tail(decrypted)

\* StoredItem.decrypt once gpg --decrypt has returned with output out, or
\* has failed: the cache, the result and whether an error is returned
decryptCachesFailure(c, path, out, failed) ==
  [cache |-> SetCached(c, path, IF failed THEN ZeroStr ELSE out),
   res |-> IF failed THEN ZeroStr ELSE out,
   err |-> failed]

decrypt(c, path, out, failed) ==
  IF failed
  THEN [cache |-> c, res |-> ZeroStr, err |-> TRUE]
  ELSE [cache |-> SetCached(c, path, out), res |-> out, err |-> FALSE]

\* strings.ToLower over the letters the model uses
Lower(ch) ==
  CASE ch = "A" -> "a"
    [] ch = "B" -> "b"
    [] OTHER -> ch

ToLower(s) == [i \in 1..Len(s) |-> Lower(s[i])]

\* strings.Contains
Contains(s, sub) ==
  \E i \in 0..(Len(s) - Len(sub)) : SubSeq(s, i + 1, i + Len(sub)) = sub

\* strings.Split(s, " ")
RECURSIVE Split(_)
Split(s) ==
  IF \A i \in 1..Len(s) : s[i] # " "
  THEN <<s>>
  ELSE LET i == CHOOSE k \in 1..Len(s) :
                  /\ s[k] = " "
                  /\ \A j \in 1..(k - 1) : s[j] # " "
       IN <<SubSeq(s, 1, i - 1)>> \o Split(SubSeq(s, i + 1, Len(s)))

\* Storage.Query
QueryEmptyFindsNothing(items, term) ==
  IF term = <<>>
  THEN <<>>
  ELSE LET queryParts == Split(ToLower(term))
           match(p) == \A k \in 1..Len(queryParts) :
                         Contains(ToLower(p.Name), queryParts[k])
       IN SelectSeq(items, match)

Query(items, term) ==
  IF term = <<>>
  THEN items
  ELSE LET queryParts == Split(ToLower(term))
           match(p) == \A k \in 1..Len(queryParts) :
                         Contains(ToLower(p.Name), queryParts[k])
       IN SelectSeq(items, match)


\* ------------------------------------------------------------- clipboard

LoopPcs == {"loop", "expire", "finish"}

\* the tick loops that are alive
AliveLoops == {g \in Gor : clr[g].pc \in LoopPcs}

ClipInit ==
  /\ clipboard = Empty
  /\ status = St("")
  /\ countdown = Float(0)
  /\ countingDown = FALSE
  /\ countdownDone = 0
  /\ clr = [g \in Gor |-> [pc |-> "none", remaining |-> Float(0)]]
  /\ spawned = 0
  /\ sinceCopy = 0

\* --------------------------------------------------- construction

\* the names Storage.findPasswordStore looks for in the home directory and
\* the home directory of user.Current(), each kept as one path element
DotStore == <<".password-store">>
PlainStore == <<"password-store">>
HomeDir == <<"/", "home">>

\* path.Join(homeDir, name)
Join(dir, name) == IF dir = <<>> THEN name ELSE dir \o Sep \o name

\* pathCandidates
Candidates(basePath, homeDir) ==
  <<basePath, Join(homeDir, DotStore), Join(homeDir, PlainStore)>>

\* what a candidate is on disk: a directory, a symbolic link to a
\* directory, nothing that resolves, or something that resolves and is gone
\* by the time of os.Stat
FsKinds == {"dir", "link", "none", "gone"}
\* filepath.EvalSymlinks of a symbolic link
Target(p) == <<"/", "mnt">> \o p

CandidatePaths ==
  {Root} \cup {Join(h, n) : h \in {<<>>, HomeDir}, n \in {DotStore, PlainStore}}

\* the loop of Storage.findPasswordStore over the candidates left
RECURSIVE tryCandidates(_, _)
tryCandidates(cands, fs) ==
  IF cands = <<>>
  THEN [path |-> <<>>, err |-> TRUE]
  ELSE LET p == Head(cands) IN
       IF p = <<>> THEN tryCandidates(Tail(cands), fs)
       ELSE IF fs[p] = "none" THEN tryCandidates(Tail(cands), fs)
       ELSE IF fs[p] = "gone" THEN tryCandidates(Tail(cands), fs)
       ELSE [path |-> IF fs[p] = "link" THEN Target(p) ELSE p, err |-> FALSE]

\* Storage.findPasswordStore: s.path and whether the error is returned
findPasswordStoreTakesBase(basePath, homeDir, fs) ==
  [path |-> basePath, err |-> FALSE]

findPasswordStore(basePath, homeDir, fs) ==
  tryCandidates(Candidates(basePath, homeDir), fs)

\* the filter worker as UI.New leaves it: both channels empty, no timer,
\* the worker in its select, the event loop of the window running.
\* submits, runs, since and burst observe it: the ChangeEvents handled, the
\* executions of Query by timer callbacks, the time since the latest
\* ChangeEvent, and whether every ChangeEvent came within the debounce delay
\* of the one before.
IdlePipe ==
  [queryInput |-> <<>>, queryResults |-> <<>>, stopFilter |-> FALSE,
   worker |-> "select", latestQuery |-> <<>>, timer |-> "none", left |-> 0,
   cbs |-> <<>>, loop |-> "run",
   submits |-> 0, runs |-> 0, since |-> DebounceTicks, burst |-> TRUE]

\* the program after storage.Init has found its store at the configured
\* path
Booted ==
  [pc |-> "run", basePath |-> Root, homeDir |-> HomeDir,
   fs |-> [p \in CandidatePaths |-> IF p = Root THEN "dir" ELSE "none"],
   path |-> Root, err |-> FALSE]

Ctx == {"watch", "ui"}

\* sync.RWMutex, zero value: nobody holds it
Unlocked == [readers |-> 0, writer |-> FALSE]

\* a goroutine outside GetCached, SetCached, invalidateCache and the prune
IdleAccess == [pc |-> "idle", op |-> "none", path |-> <<>>, todo |-> {}]

IdleIndexAll ==
  [pc |-> "idle", oldPaths |-> {}, todo |-> <<>>, seen |-> <<>>, n |-> 0,
   err |-> FALSE]
IdleCall == [path |-> <<>>, pre |-> "none", preGot |-> NoFile, ran |-> FALSE,
             done |-> FALSE, res |-> ZeroStr, err |-> FALSE]

\* filepath.Walk reads the names of the directory once; a file that goes
\* away afterwards is still handed to Storage.index, one created afterwards
\* is not
Listing(d) == SelectSeq(WalkOrder, LAMBDA p : d[p] # NoFile)

RECURSIVE IndexOf(_)
\* the entries Storage.index appends for a listing
IndexOf(listing) ==
  IF listing = <<>> THEN <<>>
  ELSE IF HasSuffix(Head(listing), Gpg)
       THEN <<StoredItem(Head(listing))>> \o IndexOf(Tail(listing))
       ELSE IndexOf(Tail(listing))

\* storage.Init (findPasswordStore, IndexAll, watch) followed by ui.New
\* (Subscribe, updateQuery), over the stores the model starts from
StorageInit ==
  /\ disk \in [FsPaths -> {NoFile, P1, P2, Other}]
  /\ disk[PathA] = P1
  /\ disk[PathB] \in {NoFile, P2}
  /\ disk[PathN] = NoFile
  /\ events = <<>>
  /\ dropped = FALSE
  /\ edits = 0
  /\ writes = 0
  /\ uiOps = 0
  /\ cache = <<>>
  /\ passwords = IndexOf(Listing(disk))
  /\ watcher = "idle"
  /\ ia = [c \in Ctx |-> IdleIndexAll]
  /\ ui = [pc |-> "idle", path |-> <<>>, res |-> ZeroStr]
  /\ query = <<>>
  /\ filtered = Query(passwords, query)
  /\ selectedIdx = 0
  /\ editMode = FALSE
  /\ createMode = FALSE
  /\ lastEv = [p \in EntryPaths |-> "none"]
  /\ got = [p \in EntryPaths |-> NoFile]
  /\ written = [p \in EntryPaths |-> NoFile]
  /\ call = IdleCall
  /\ boot = Booted
  /\ pipe = IdlePipe
  /\ cacheMutex = Unlocked
  /\ acc = [c \in Ctx |-> IdleAccess]
  /\ editPath = <<>>
  /\ copied = <<>>

\* a store nothing happens to, for the specifications of the clipboard
QuietStorage ==
  /\ disk = [p \in FsPaths |-> NoFile]
  /\ events = <<>>
  /\ dropped = FALSE
  /\ edits = 0
  /\ writes = 0
  /\ uiOps = 0
  /\ cache = <<>>
  /\ passwords = <<>>
  /\ watcher = "idle"
  /\ ia = [c \in Ctx |-> IdleIndexAll]
  /\ ui = [pc |-> "idle", path |-> <<>>, res |-> ZeroStr]
  /\ query = <<>>
  /\ filtered = <<>>
  /\ selectedIdx = 0
  /\ editMode = FALSE
  /\ createMode = FALSE
  /\ lastEv = [p \in EntryPaths |-> "none"]
  /\ got = [p \in EntryPaths |-> NoFile]
  /\ written = [p \in EntryPaths |-> NoFile]
  /\ call = IdleCall
  /\ boot = Booted
  /\ pipe = IdlePipe
  /\ cacheMutex = Unlocked
  /\ acc = [c \in Ctx |-> IdleAccess]
  /\ editPath = <<>>
  /\ copied = <<>>

InitClip == ClipInit /\ QuietStorage

InitStorage == ClipInit /\ StorageInit

\* copyToClipboard / copyFieldToClipboard, clipboard.WriteAll succeeded:
\* the value is on the clipboard and `go ui.clearClipboard()` is issued
copyToClipboard(v) ==
  /\ spawned < MaxCopies
  /\ clipboard' = v
  /\ status' = St("Copied to clipboard")
  /\ spawned' = spawned + 1
  /\ clr' = [clr EXCEPT ![spawned + 1] =
               [pc |-> "entry", remaining |-> Float(0)]]
  /\ sinceCopy' = 0
  /\ UNCHANGED <<countdown, countingDown, countdownDone, storageVars>>

\* copyToClipboard / copyFieldToClipboard, clipboard.WriteAll failed
copyFailed ==
  /\ spawned < MaxCopies
  /\ status' = St("Failed to copy")
  /\ UNCHANGED <<clipboard, countdown, countingDown, countdownDone, clr,
                 spawned, sinceCopy, storageVars>>

\* the branch clearClipboard takes under statusMutex on entry
EntryBranchAlwaysStart(cd, counting) ==
  IF Positive(cd) THEN "reset" ELSE "start"

EntryBranch(cd, counting) ==
  IF Positive(cd) THEN "reset"
  ELSE IF counting THEN "cancel"
  ELSE "start"

\* clearClipboard, from entry to the first unlock
clearClipboardEntry(g) ==
  /\ clr[g].pc = "entry"
  /\ LET b == EntryBranch(countdown, countingDown) IN
     /\ countdown' = IF b = "reset" THEN Float(ClipSeconds * ClipSeconds)
                     ELSE countdown
     /\ countingDown' = IF b = "start" THEN TRUE ELSE countingDown
     /\ clr' = [clr EXCEPT ![g] =
                  CASE b = "reset"  -> [pc |-> "done", remaining |-> Float(0)]
                    [] b = "cancel" -> [pc |-> "send", remaining |-> Float(0)]
                    [] b = "start"  -> [pc |-> "loop",
                                        remaining |-> Float(ClipSeconds)]]
  /\ UNCHANGED <<clipboard, status, countdownDone, spawned, sinceCopy,
                 storageVars>>

\* ui.countdownDone <- true, which blocks while the buffer is full
clearClipboardSignal(g) ==
  /\ clr[g].pc = "send"
  /\ countdownDone < DoneCap
  /\ countdownDone' = countdownDone + 1
  /\ clr' = [clr EXCEPT ![g].pc = "done"]
  /\ UNCHANGED <<clipboard, status, countdown, countingDown, spawned,
                 sinceCopy, storageVars>>

\* case <-ui.countdownDone
clearClipboardCancelled(g) ==
  /\ clr[g].pc = "loop"
  /\ countdownDone > 0
  /\ countdownDone' = countdownDone - 1
  /\ countingDown' = FALSE
  /\ clr' = [clr EXCEPT ![g].pc = "done"]
  /\ UNCHANGED <<clipboard, status, countdown, spawned, sinceCopy,
                 storageVars>>

\* case <-ticker.C, up to the test remaining <= 0
clearClipboardTick(g) ==
  /\ clr[g].pc = "loop"
  /\ countdown' = clr[g].remaining
  /\ status' = [msg |-> "Will clear",
                name |-> NameByIdx(passwords, selectedIdx),
                n |-> Seconds(clr[g].remaining)]
  /\ clr' = [clr EXCEPT ![g] =
               IF Leq(clr[g].remaining, TickSeconds)
               THEN [pc |-> "expire", remaining |-> Float(0)]
               ELSE [pc |-> "loop",
                     remaining |-> Round(Diff(clr[g].remaining,
                                              TickSeconds))]]
  /\ sinceCopy' = IF sinceCopy <= TotalTicks THEN sinceCopy + 1 ELSE sinceCopy
  /\ UNCHANGED <<clipboard, countingDown, countdownDone, spawned, storageVars>>

\* clipboard.WriteAll("") on the tick that made remaining <= 0
clearClipboardExpire(g) ==
  /\ clr[g].pc = "expire"
  /\ clipboard' = Empty
  /\ clr' = [clr EXCEPT ![g].pc = "finish"]
  /\ UNCHANGED <<status, countdown, countingDown, countdownDone, spawned,
                 sinceCopy, storageVars>>

\* status "Clipboard cleared", countingDown = false, return
clearClipboardFinish(g) ==
  /\ clr[g].pc = "finish"
  /\ status' = St("Clipboard cleared")
  /\ countingDown' = FALSE
  /\ clr' = [clr EXCEPT ![g].pc = "done"]
  /\ UNCHANGED <<clipboard, countdown, countdownDone, spawned, sinceCopy,
                 storageVars>>

ClipStep ==
  \/ \E g \in Gor : clearClipboardEntry(g)
  \/ \E g \in Gor : clearClipboardSignal(g)
  \/ \E g \in Gor : clearClipboardCancelled(g)
  \/ \E g \in Gor : clearClipboardTick(g)
  \/ \E g \in Gor : clearClipboardExpire(g)
  \/ \E g \in Gor : clearClipboardFinish(g)

NextClip ==
  \/ \E v \in Secrets : copyToClipboard(v)
  \/ copyFailed
  \/ ClipStep

SpecClip == InitClip /\ [][NextClip]_vars

\* the goroutines are scheduled and the ticker keeps firing; nothing forces
\* the user to copy
FairSpecClip == SpecClip /\ \A g \in Gor :
  /\ WF_vars(clearClipboardEntry(g))
  /\ WF_vars(clearClipboardSignal(g))
  /\ WF_vars(clearClipboardCancelled(g))
  /\ WF_vars(clearClipboardTick(g))
  /\ WF_vars(clearClipboardExpire(g))
  /\ WF_vars(clearClipboardFinish(g))

\* ------------------------------- clipboard, revision without statusMutex
\* ui/ui.go: the same loop, but the entry of clearClipboard takes no lock
\* and does not return after signalling; its statements interleave.

\* if ui.countdown > 0 { ui.countdown = ...; return }
clearClipboardCheckCountdown0(g) ==
  /\ clr[g].pc = "entry"
  /\ IF Positive(countdown)
     THEN /\ countdown' = Float(ClipSeconds * ClipSeconds)
          /\ clr' = [clr EXCEPT ![g].pc = "done"]
     ELSE /\ countdown' = countdown
          /\ clr' = [clr EXCEPT ![g].pc = "check"]
  /\ UNCHANGED <<clipboard, status, countingDown, countdownDone, spawned,
                 sinceCopy, storageVars>>

\* if ui.countingDown { ... }
clearClipboardCheckCounting0(g) ==
  /\ clr[g].pc = "check"
  /\ clr' = [clr EXCEPT ![g].pc = IF countingDown THEN "send" ELSE "start"]
  /\ UNCHANGED <<clipboard, status, countdown, countingDown, countdownDone,
                 spawned, sinceCopy, storageVars>>

\* ui.countdownDone <- true, then fall through
clearClipboardSignal0(g) ==
  /\ clr[g].pc = "send"
  /\ countdownDone < DoneCap
  /\ countdownDone' = countdownDone + 1
  /\ clr' = [clr EXCEPT ![g].pc = "start"]
  /\ UNCHANGED <<clipboard, status, countdown, countingDown, spawned,
                 sinceCopy, storageVars>>

\* ui.countingDown = true; ticker; remaining := ClipSeconds
clearClipboardStart0(g) ==
  /\ clr[g].pc = "start"
  /\ countingDown' = TRUE
  /\ clr' = [clr EXCEPT ![g] =
               [pc |-> "loop", remaining |-> Float(ClipSeconds)]]
  /\ UNCHANGED <<clipboard, status, countdown, countdownDone, spawned,
                 sinceCopy, storageVars>>

NextClip0 ==
  \/ \E v \in Secrets : copyToClipboard(v)
  \/ copyFailed
  \/ \E g \in Gor : clearClipboardCheckCountdown0(g)
  \/ \E g \in Gor : clearClipboardCheckCounting0(g)
  \/ \E g \in Gor : clearClipboardSignal0(g)
  \/ \E g \in Gor : clearClipboardStart0(g)
  \/ \E g \in Gor : clearClipboardCancelled(g)
  \/ \E g \in Gor : clearClipboardTick(g)
  \/ \E g \in Gor : clearClipboardExpire(g)
  \/ \E g \in Gor : clearClipboardFinish(g)

SpecClip0 == InitClip /\ [][NextClip0]_vars

\* ------------------------------------------------ the store on disk, notify

\* notify dispatches the event of a change to the channel c without
\* blocking: it is queued while c has room and dropped otherwise
Notify(c, path) == IF Len(c) < EventCap THEN Append(c, path) ELSE c

\* a file of the store is written, replaced or removed from outside
externalChange(p, v) ==
  /\ edits < MaxEdits
  /\ v # disk[p]
  /\ v \in (IF p \in EntryPaths THEN Plains ELSE {Other}) \cup {NoFile}
  /\ disk' = [disk EXCEPT ![p] = v]
  /\ events' = Notify(events, p)
  /\ dropped' = (dropped \/ Len(events) >= EventCap)
  /\ edits' = edits + 1
  /\ written' = IF p \in EntryPaths THEN [written EXCEPT ![p] = NoFile]
                ELSE written
  /\ UNCHANGED <<writes, uiOps, cache, passwords, watcher, ia, ui, uiVars,
                 lastEv, got, call, status, clipOnly, boot, pipe,
                 lockVars, editPath, copied>>

\* ---------------------------------------------------------- Storage.watch

\* for event := range c { s.invalidateCache(event.Path()); s.IndexAll() }:
\* an event is taken from c, its path is invalidated, IndexAll is entered
watchReceive ==
  /\ watcher = "idle"
  /\ events # <<>>
  /\ events' = Tail(events)
  /\ cache' = invalidateCache(cache, Head(events))
  /\ lastEv' = [p \in EntryPaths |->
                  IF p = Head(events) /\ p \in DOMAIN cache
                  THEN "invalidate" ELSE lastEv[p]]
  /\ got' = [p \in EntryPaths |->
               IF lastEv'[p] = "get" THEN got[p] ELSE NoFile]
  /\ watcher' = "index"
  /\ ia' = [ia EXCEPT !["watch"] = [IdleIndexAll EXCEPT !.pc = "reset"]]
  /\ UNCHANGED <<disk, dropped, edits, writes, uiOps, passwords, ui, uiVars,
                 written, call, status, clipOnly, boot, pipe,
                 lockVars, editPath, copied>>

\* --------------------------------------------------------- Storage.IndexAll
\* IndexAll runs on the watcher's goroutine and, from Create, on the UI's;
\* s.passwords is shared by both without a lock.

\* oldPaths is collected, s.passwords = nil, and filepath.Walk reads the
\* directory
indexAllReset(c) ==
  /\ ia[c].pc = "reset"
  /\ passwords' = <<>>
  /\ ia' = [ia EXCEPT ![c].pc = "walk", ![c].seen = <<>>, ![c].n = 0,
                      ![c].oldPaths = PathsOf(passwords),
                      ![c].todo = Listing(disk)]
  /\ UNCHANGED <<disk, events, dropped, edits, writes, uiOps, cache, watcher,
                 ui, uiVars, lastEv, got, written, call, status, clipOnly,
                 boot, pipe, lockVars, editPath, copied>>

\* Storage.index on the next name: s.passwords = append(s.passwords, item);
\* n counts the entries this walk has appended.
\* The append is not synchronised: it extends the slice as it is now or as
\* this goroutine last stored it.
indexAllVisit(c) ==
  /\ ia[c].pc = "walk"
  /\ ia[c].todo # <<>>
  /\ LET path == Head(ia[c].todo) IN
     IF HasSuffix(path, Gpg)
     THEN \E base \in {passwords, ia[c].seen} :
            /\ passwords' = Append(base, StoredItem(path))
            /\ ia' = [ia EXCEPT ![c].todo = Tail(ia[c].todo),
                                ![c].seen = passwords',
                                ![c].n = ia[c].n + 1]
     ELSE /\ passwords' = passwords
          /\ ia' = [ia EXCEPT ![c].todo = Tail(ia[c].todo)]
  /\ UNCHANGED <<disk, events, dropped, edits, writes, uiOps, cache, watcher,
                 ui, uiVars, lastEv, got, written, call, status, clipOnly,
                 boot, pipe, lockVars, editPath, copied>>

\* after the walk: newPaths is collected from s.passwords and the cache is
\* pruned to it under cacheMutex
indexAllPrune(c) ==
  /\ ia[c].pc = "walk"
  /\ ia[c].todo = <<>>
  /\ cache' = Prune(cache, PathsOf(passwords))
  /\ lastEv' = [p \in EntryPaths |->
                  IF p \in DOMAIN cache /\ p \notin DOMAIN cache'
                  THEN "prune" ELSE lastEv[p]]
  /\ got' = [p \in EntryPaths |->
               IF lastEv'[p] = "get" THEN got[p] ELSE NoFile]
  /\ ia' = [ia EXCEPT ![c].pc = "publish", ![c].oldPaths = {}]
  /\ UNCHANGED <<disk, events, dropped, edits, writes, uiOps, passwords,
                 watcher, ui, uiVars, written, call, status, clipOnly, boot, pipe,
                 lockVars, editPath, copied>>

\* UI.updateQuery: the new value of ui.filtered and ui.selectedIdx
updateQuery ==
  /\ filtered' = Query(passwords, query)
  /\ selectedIdx' = IF selectedIdx >= Len(filtered') THEN 0 ELSE selectedIdx

\* s.publishUpdate: the subscriber registered by ui.New sets the status and
\* calls ui.updateQuery; IndexAll returns to its caller
indexAllPublish(c) ==
  /\ ia[c].pc = "publish"
  /\ status' = [msg |-> "Indexed pass entries", n |-> Len(passwords)]
  /\ updateQuery
  /\ ia' = [ia EXCEPT ![c] = IdleIndexAll]
  /\ watcher' = IF c = "watch" THEN "idle" ELSE watcher
  /\ ui' = IF c = "ui" THEN [ui EXCEPT !.pc = "created"] ELSE ui
  /\ UNCHANGED <<disk, events, dropped, edits, writes, uiOps, cache, passwords,
                 query, editMode, createMode, lastEv, got, written, call,
                 clipOnly, boot, pipe, lockVars, editPath, copied>>

\* ------------------------------------------------- StoredItem.decrypt (UI)
\* The copy of a password starts with Password() and so with decrypt(); what
\* copyToClipboard does with the value it gets is followed by SpecClip.

\* UI.moveSelectionUp
moveSelectionUp ==
  /\ ui.pc = "idle"
  /\ uiOps < MaxUiOps
  /\ uiOps' = uiOps + 1
  /\ ~editMode /\ ~createMode
  /\ selectedIdx > 0
  /\ selectedIdx' = selectedIdx - 1
  /\ UNCHANGED <<disk, events, dropped, edits, writes, cache, passwords,
                 watcher, ia, ui, query, filtered, editMode, createMode,
                 lastEv, got, written, call, status, clipOnly, boot, pipe,
                 lockVars, editPath, copied>>

\* UI.moveSelectionDown
moveSelectionDown ==
  /\ ui.pc = "idle"
  /\ uiOps < MaxUiOps
  /\ uiOps' = uiOps + 1
  /\ ~editMode /\ ~createMode
  /\ selectedIdx < Len(filtered) - 1
  /\ selectedIdx' = selectedIdx + 1
  /\ UNCHANGED <<disk, events, dropped, edits, writes, cache, passwords,
                 watcher, ia, ui, query, filtered, editMode, createMode,
                 lastEv, got, written, call, status, clipOnly, boot, pipe,
                 lockVars, editPath, copied>>

\* UI.copyToClipboard with nothing selected
copyNoSelection ==
  /\ ui.pc = "idle"
  /\ uiOps < MaxUiOps
  /\ uiOps' = uiOps + 1
  /\ ~editMode /\ ~createMode
  /\ selectedIdx >= Len(filtered)
  /\ status' = St("No password selected")
  /\ UNCHANGED <<disk, events, dropped, edits, writes, cache, passwords,
                 watcher, ia, ui, uiVars, lastEv, got, written, call, clipOnly,
                 boot, pipe, lockVars, editPath, copied>>

\* UI.copyToClipboard calls Password() of the selected item, which calls
\* decrypt(): the lookup in the cache; a hit returns at once
decryptLookup ==
  /\ ui.pc = "idle"
  /\ uiOps < MaxUiOps
  /\ uiOps' = uiOps + 1
  /\ ~editMode /\ ~createMode
  /\ selectedIdx < Len(filtered)
  /\ LET path == filtered[selectedIdx + 1].Path
         r == GetCached(cache, path)
     IN /\ call' = [path |-> path, pre |-> lastEv[path],
                    preGot |-> got[path], ran |-> FALSE, done |-> r[2],
                    res |-> r[1], err |-> FALSE]
        /\ ui' = IF r[2] THEN ui
                 ELSE [pc |-> "run", path |-> path, res |-> ZeroStr]
  /\ UNCHANGED <<disk, events, dropped, edits, writes, cache, passwords,
                 watcher, ia, uiVars, lastEv, got, written, status, clipOnly,
                 boot, pipe, lockVars, editPath, copied>>

\* gpg --decrypt succeeds on the file as it is now
decryptRun ==
  /\ ui.pc = "run"
  /\ disk[ui.path] \notin {NoFile, Dir}
  /\ ui' = [ui EXCEPT !.pc = "store", !.res = disk[ui.path]]
  /\ call' = [call EXCEPT !.ran = TRUE]
  /\ UNCHANGED <<disk, events, dropped, edits, writes, uiOps, cache, passwords,
                 watcher, ia, uiVars, lastEv, got, written, status, clipOnly,
                 boot, pipe, lockVars, editPath, copied>>

\* gpg --decrypt fails (no such file, no key, the agent refuses):
\* decrypt returns "", err
decryptFail ==
  /\ ui.pc = "run"
  /\ LET r == decrypt(cache, ui.path, ZeroStr, TRUE) IN
     /\ cache' = r.cache
     /\ call' = [call EXCEPT !.ran = TRUE, !.done = TRUE, !.err = r.err,
                             !.res = r.res]
  /\ ui' = [pc |-> "idle", path |-> <<>>, res |-> ZeroStr]
  /\ UNCHANGED <<disk, events, dropped, edits, writes, uiOps, passwords,
                 watcher, ia, uiVars, lastEv, got, written, status, clipOnly,
                 boot, pipe, lockVars, editPath, copied>>

\* p.Storage.SetCached(p.Path, result); return result, nil
decryptStore ==
  /\ ui.pc = "store"
  /\ LET r == decrypt(cache, ui.path, ui.res, FALSE) IN
     /\ cache' = r.cache
     /\ got' = [got EXCEPT ![ui.path] = r.res]
     /\ call' = [call EXCEPT !.done = TRUE, !.err = r.err, !.res = r.res]
  /\ lastEv' = [lastEv EXCEPT ![ui.path] = "get"]
  /\ ui' = [pc |-> "idle", path |-> <<>>, res |-> ZeroStr]
  /\ UNCHANGED <<disk, events, dropped, edits, writes, uiOps, passwords,
                 watcher, ia, uiVars, written, status, clipOnly, boot, pipe,
                 lockVars, editPath, copied>>

\* ------------------------------------------------------------- edit mode

\* UI.enterEditMode
enterEditMode ==
  /\ ui.pc = "idle"
  /\ uiOps < MaxUiOps
  /\ uiOps' = uiOps + 1
  /\ ~createMode
  /\ selectedIdx < Len(filtered)
  /\ LET r == GetCached(cache, filtered[selectedIdx + 1].Path) IN
     IF ~r[2] \/ r[1] = ZeroStr
     THEN /\ status' = St("Cannot edit: decrypt first")
          /\ UNCHANGED <<editMode, editPath>>
     ELSE /\ editMode' = TRUE
          /\ editPath' = filtered[selectedIdx + 1].Path
          /\ UNCHANGED status
  /\ UNCHANGED <<disk, events, dropped, edits, writes, cache, passwords,
                 watcher, ia, ui, query, filtered, selectedIdx, createMode,
                 lastEv, got, written, call, clipOnly, boot, pipe,
                 lockVars, copied>>

\* UI.cancelEditMode
cancelEditMode ==
  /\ ui.pc = "idle"
  /\ uiOps < MaxUiOps
  /\ uiOps' = uiOps + 1
  /\ editMode
  /\ editMode' = FALSE
  /\ status' = St("Edit cancelled")
  /\ UNCHANGED <<disk, events, dropped, edits, writes, cache, passwords,
                 watcher, ia, ui, query, filtered, selectedIdx, createMode,
                 lastEv, got, written, call, clipOnly, boot, pipe,
                 lockVars, editPath, copied>>

\* UI.saveEditMode up to the end of gpg --encrypt, which has written the
\* text of editModeEditor (the cached content as the user has edited it) to
\* the path of the item selected now
saveEncrypt(content) ==
  /\ ui.pc = "idle"
  /\ uiOps < MaxUiOps
  /\ editMode
  /\ writes < MaxWrites
  /\ selectedIdx < Len(filtered)
  /\ LET path == filtered[selectedIdx + 1].Path IN
     /\ disk' = [disk EXCEPT ![path] = content]
     /\ events' = Notify(events, path)
     /\ dropped' = (dropped \/ Len(events) >= EventCap)
     /\ written' = [written EXCEPT ![path] = content]
     /\ ui' = [pc |-> "saveStore", path |-> path, res |-> content]
  /\ writes' = writes + 1
  /\ uiOps' = uiOps + 1
  /\ UNCHANGED <<edits, cache, passwords, watcher, ia, uiVars, lastEv, got,
                 call, status, clipOnly, boot, pipe,
                 lockVars, editPath, copied>>

\* UI.saveEditMode without a recipient, or with gpg --encrypt failing
saveFailedStillPuts(msg) ==
  /\ ui.pc = "idle"
  /\ uiOps < MaxUiOps
  /\ uiOps' = uiOps + 1
  /\ editMode
  /\ selectedIdx < Len(filtered)
  /\ status' = St(msg)
  /\ cache' = SetCached(cache, filtered[selectedIdx + 1].Path, P2)
  /\ UNCHANGED <<disk, events, dropped, edits, writes, passwords, watcher, ia,
                 ui, uiVars, lastEv, got, written, call, clipOnly, boot, pipe,
                 lockVars, editPath, copied>>

saveFailed(msg) ==
  /\ ui.pc = "idle"
  /\ uiOps < MaxUiOps
  /\ uiOps' = uiOps + 1
  /\ editMode
  /\ selectedIdx < Len(filtered)
  /\ status' = St(msg)
  /\ UNCHANGED <<disk, events, dropped, edits, writes, cache, passwords,
                 watcher, ia, ui, uiVars, lastEv, got, written, call, clipOnly,
                 boot, pipe, lockVars, editPath, copied>>

\* item.Storage.SetCached(item.Path, content); editMode = false; status
saveStore ==
  /\ ui.pc = "saveStore"
  /\ cache' = SetCached(cache, ui.path, ui.res)
  /\ lastEv' = [lastEv EXCEPT ![ui.path] = "put"]
  /\ got' = [got EXCEPT ![ui.path] = NoFile]
  /\ editMode' = FALSE
  /\ status' = St("Saved successfully")
  /\ ui' = [ui EXCEPT !.pc = "saveUpdate"]
  /\ UNCHANGED <<disk, events, dropped, edits, writes, uiOps, passwords,
                 watcher, ia, query, filtered, selectedIdx, createMode,
                 written, call, clipOnly, boot, pipe,
                 lockVars, editPath, copied>>

\* ui.updateQuery() at the end of saveEditMode
saveUpdate ==
  /\ ui.pc = "saveUpdate"
  /\ updateQuery
  /\ ui' = [pc |-> "idle", path |-> <<>>, res |-> ZeroStr]
  /\ UNCHANGED <<disk, events, dropped, edits, writes, uiOps, cache, passwords,
                 watcher, ia, query, editMode, createMode, lastEv, got,
                 written, call, status, clipOnly, boot, pipe,
                 lockVars, editPath, copied>>

\* ------------------------------------------------------------ create mode

\* UI.layoutAddButton: the add button is clicked
enterCreateMode ==
  /\ ui.pc = "idle"
  /\ uiOps < MaxUiOps
  /\ uiOps' = uiOps + 1
  /\ ~createMode
  /\ createMode' = TRUE
  /\ UNCHANGED <<disk, events, dropped, edits, writes, cache, passwords,
                 watcher, ia, ui, query, filtered, selectedIdx, editMode,
                 lastEv, got, written, call, status, clipOnly, boot, pipe,
                 lockVars, editPath, copied>>

\* Escape in create mode
leaveCreateMode ==
  /\ ui.pc = "idle"
  /\ uiOps < MaxUiOps
  /\ uiOps' = uiOps + 1
  /\ createMode
  /\ createMode' = FALSE
  /\ UNCHANGED <<disk, events, dropped, edits, writes, cache, passwords,
                 watcher, ia, ui, query, filtered, selectedIdx, editMode,
                 lastEv, got, written, call, status, clipOnly, boot, pipe,
                 lockVars, editPath, copied>>

\* UI.createNewPassword into Storage.Create, up to the end of gpg --encrypt,
\* which has written "\n" to <root>/<name>.gpg; Create goes on to IndexAll
createEncrypt(name) ==
  /\ ui.pc = "idle"
  /\ uiOps < MaxUiOps
  /\ createMode
  /\ writes < MaxWrites
  /\ LET fullPath == FullPath(name) IN
     /\ disk' = [disk EXCEPT ![fullPath] = NewContent]
     /\ events' = Notify(events, fullPath)
     /\ dropped' = (dropped \/ Len(events) >= EventCap)
     /\ written' = [written EXCEPT ![fullPath] = NewContent]
     /\ ui' = [pc |-> "createIndex", path |-> fullPath, res |-> NewContent]
  /\ ia' = [ia EXCEPT !["ui"] = [IdleIndexAll EXCEPT !.pc = "reset"]]
  /\ writes' = writes + 1
  /\ uiOps' = uiOps + 1
  /\ UNCHANGED <<edits, cache, passwords, watcher, uiVars, lastEv, got, call,
                 status, clipOnly, boot, pipe, lockVars, editPath, copied>>

\* UI.createNewPassword with an empty name or without a recipient, or
\* Storage.Create failing
createFailed(msg) ==
  /\ ui.pc = "idle"
  /\ uiOps < MaxUiOps
  /\ uiOps' = uiOps + 1
  /\ createMode
  /\ status' = St(msg)
  /\ UNCHANGED <<disk, events, dropped, edits, writes, cache, passwords,
                 watcher, ia, ui, uiVars, lastEv, got, written, call, clipOnly,
                 boot, pipe, lockVars, editPath, copied>>

\* UI.createNewPassword after Create has returned: updateQuery, select the
\* new item, enterEditMode
createFinish ==
  /\ ui.pc = "created"
  /\ createMode' = FALSE
  /\ filtered' = Query(passwords, query)
  /\ LET sel == IF selectedIdx >= Len(filtered') THEN 0 ELSE selectedIdx
         hits == {i \in 1..Len(filtered') : filtered'[i].Path = ui.path}
     IN IF hits = {}
        THEN /\ selectedIdx' = sel
             /\ status' = St("Could not select new password")
             /\ UNCHANGED editMode
        ELSE LET i == CHOOSE k \in hits : \A j \in hits : k <= j
                 r == GetCached(cache, ui.path)
             IN /\ selectedIdx' = i - 1
                /\ IF ~r[2] \/ r[1] = ZeroStr
                   THEN /\ status' = St("Cannot edit: decrypt first")
                        /\ UNCHANGED editMode
                   ELSE /\ status' = St("Created successfully")
                        /\ editMode' = TRUE
  /\ ui' = [pc |-> "idle", path |-> <<>>, res |-> ZeroStr]
  /\ UNCHANGED <<disk, events, dropped, edits, writes, uiOps, cache, passwords,
                 watcher, ia, query, lastEv, got, written, call, clipOnly,
                 boot, pipe, lockVars, editPath, copied>>

SaveFailures == {"No GPG key configured", "Failed to save"}
CreateFailures == {"Password name cannot be empty", "No GPG key configured",
                   "Failed to create"}

NextStorage ==
  \/ \E p \in FsPaths, v \in {NoFile, P1, P2, Other} : externalChange(p, v)
  \/ watchReceive
  \/ \E c \in Ctx : indexAllReset(c)
  \/ \E c \in Ctx : indexAllVisit(c)
  \/ \E c \in Ctx : indexAllPrune(c)
  \/ \E c \in Ctx : indexAllPublish(c)
  \/ moveSelectionUp
  \/ moveSelectionDown
  \/ copyNoSelection
  \/ decryptLookup
  \/ decryptRun
  \/ decryptFail
  \/ decryptStore
  \/ enterEditMode
  \/ cancelEditMode
  \/ \E content \in Plains : saveEncrypt(content)
  \/ \E msg \in SaveFailures : saveFailed(msg)
  \/ saveStore
  \/ saveUpdate
  \/ enterCreateMode
  \/ leaveCreateMode
  \/ \E name \in EntryNames : createEncrypt(name)
  \/ \E msg \in CreateFailures : createFailed(msg)
  \/ createFinish

SpecStorage == InitStorage /\ [][NextStorage]_vars

\* ---------------------------------------------- a rebuild on a quiet store
\* The watcher rebuilds the index of a store that is not changed meanwhile:
\* files and directories were put into an empty store and the event of one
\* of them is in the channel (the others were dropped on the full channel).

IndexDisks ==
  {d \in [FsPaths -> {NoFile, P1, Other, Dir}] :
     /\ \A p \in EntryPaths : d[p] \in {NoFile, P1, Dir}
     /\ d[PathN] \in {NoFile, Other, Dir}}

InitIndex ==
  /\ ClipInit
  /\ disk \in IndexDisks
  /\ \E p \in FsPaths : disk[p] # NoFile /\ events = <<p>>
  /\ dropped = TRUE
  /\ edits = 0
  /\ writes = 0
  /\ uiOps = 0
  /\ cache = <<>>
  /\ passwords = <<>>
  /\ watcher = "idle"
  /\ ia = [c \in Ctx |-> IdleIndexAll]
  /\ ui = [pc |-> "idle", path |-> <<>>, res |-> ZeroStr]
  /\ query = <<>>
  /\ filtered = <<>>
  /\ selectedIdx = 0
  /\ editMode = FALSE
  /\ createMode = FALSE
  /\ lastEv = [p \in EntryPaths |-> "none"]
  /\ got = [p \in EntryPaths |-> NoFile]
  /\ written = [p \in EntryPaths |-> NoFile]
  /\ call = IdleCall
  /\ boot = Booted
  /\ pipe = IdlePipe
  /\ cacheMutex = Unlocked
  /\ acc = [c \in Ctx |-> IdleAccess]
  /\ editPath = <<>>
  /\ copied = <<>>

NextIndex ==
  \/ watchReceive
  \/ \E c \in Ctx : indexAllReset(c)
  \/ \E c \in Ctx : indexAllVisit(c)
  \/ \E c \in Ctx : indexAllPrune(c)
  \/ \E c \in Ctx : indexAllPublish(c)

SpecIndex == InitIndex /\ [][NextIndex]_vars

\* ------------------------------------------------------ the filter worker
\* UI.startFilterWorker, the ChangeEvent and FrameEvent branches of UI.loop
\* and the callbacks of time.AfterFunc, over a store that does not change.

\* a send that does not block: select { case ch <- v: default: }
TrySend(ch, cap, v) == IF Len(ch) < cap THEN Append(ch, v) ELSE ch

\* a sequence without its i-th element
Without(seq, i) == SubSeq(seq, 1, i - 1) \o SubSeq(seq, i + 1, Len(seq))

\* the texts the search editor can hold
EditorTexts == {<<>>, <<"a">>, <<"b">>}

InitFilter ==
  /\ ClipInit
  /\ disk = [p \in FsPaths |->
               IF p = PathA THEN P1 ELSE IF p = PathB THEN P2 ELSE NoFile]
  /\ events = <<>>
  /\ dropped = FALSE
  /\ edits = 0
  /\ writes = 0
  /\ uiOps = 0
  /\ cache = <<>>
  /\ passwords = IndexOf(Listing(disk))
  /\ watcher = "idle"
  /\ ia = [c \in Ctx |-> IdleIndexAll]
  /\ ui = [pc |-> "idle", path |-> <<>>, res |-> ZeroStr]
  /\ query = <<>>
  /\ filtered = Query(passwords, query)
  /\ selectedIdx \in {0, 1}
  /\ editMode = FALSE
  /\ createMode = FALSE
  /\ lastEv = [p \in EntryPaths |-> "none"]
  /\ got = [p \in EntryPaths |-> NoFile]
  /\ written = [p \in EntryPaths |-> NoFile]
  /\ call = IdleCall
  /\ boot = Booted
  /\ pipe = IdlePipe
  /\ cacheMutex = Unlocked
  /\ acc = [c \in Ctx |-> IdleAccess]
  /\ editPath = <<>>
  /\ copied = <<>>

filterUnchanged ==
  UNCHANGED <<disk, events, dropped, edits, writes, uiOps, cache, passwords,
              watcher, ia, ui, editMode, createMode, lastEv, got, written,
              call, status, clipOnly, boot, lockVars, editPath, copied>>

\* the receive of UI.loop at the top of a FrameEvent:
\* select { case filtered := <-ui.queryResults: ... default: }
consumeResults(results) ==
  IF results = <<>>
  THEN [filtered |-> filtered, selectedIdx |-> selectedIdx, results |-> results]
  ELSE [filtered |-> Head(results),
        selectedIdx |-> IF selectedIdx >= Len(Head(results))
                        THEN 0 ELSE selectedIdx,
        results |-> Tail(results)]

\* a FrameEvent without a change of the search text
frameEvent ==
  /\ pipe.loop = "run"
  /\ pipe.queryResults # <<>>
  /\ LET r == consumeResults(pipe.queryResults) IN
     /\ filtered' = r.filtered
     /\ selectedIdx' = r.selectedIdx
     /\ pipe' = [pipe EXCEPT !.queryResults = r.results]
  /\ query' = query
  /\ filterUnchanged

\* a FrameEvent in which the search editor reports a ChangeEvent: results
\* are received first, then ui.query is set and sent to queryInput without
\* blocking
frameChangeEvent(text) ==
  /\ pipe.loop = "run"
  /\ pipe.submits < MaxSubmits
  /\ ~editMode /\ ~createMode
  /\ text # query
  /\ LET r == consumeResults(pipe.queryResults) IN
     /\ filtered' = r.filtered
     /\ selectedIdx' = r.selectedIdx
     /\ query' = text
     /\ pipe' = [pipe EXCEPT
                   !.queryResults = r.results,
                   !.queryInput = TrySend(pipe.queryInput, QueryInputCap, text),
                   !.submits = pipe.submits + 1,
                   !.since = 0,
                   !.burst = /\ pipe.burst
                             /\ \/ pipe.submits = 0
                                \/ pipe.since < DebounceTicks]
  /\ filterUnchanged

\* case app.DestroyEvent: close(ui.stopFilter); return e.Err
destroyEvent ==
  /\ pipe.loop = "run"
  /\ pipe' = [pipe EXCEPT !.stopFilter = TRUE, !.loop = "returned"]
  /\ UNCHANGED uiVars
  /\ filterUnchanged

\* the worker's case query := <-ui.queryInput: the timer it holds is
\* stopped, which keeps it from firing if it has not fired, and a new one is
\* started
workerReceive ==
  /\ pipe.worker = "select"
  /\ pipe.queryInput # <<>>
  /\ pipe' = [pipe EXCEPT !.queryInput = Tail(pipe.queryInput),
                          !.latestQuery = Head(pipe.queryInput),
                          !.timer = "armed",
                          !.left = DebounceTicks]
  /\ UNCHANGED uiVars
  /\ filterUnchanged

\* the worker's case <-ui.stopFilter: timer.Stop() and return
workerStop ==
  /\ pipe.worker = "select"
  /\ pipe.stopFilter
  /\ pipe' = [pipe EXCEPT !.worker = "done",
                          !.timer = IF pipe.timer = "armed"
                                    THEN "stopped" ELSE pipe.timer]
  /\ UNCHANGED uiVars
  /\ filterUnchanged

\* 25 ms pass; a timer whose delay is over fires before more time passes
filterTick ==
  /\ ~(pipe.timer = "armed" /\ pipe.left = 0)
  /\ pipe.timer = "armed" \/ pipe.since < DebounceTicks
  /\ pipe' = [pipe EXCEPT
                !.left = IF pipe.timer = "armed" THEN pipe.left - 1
                         ELSE pipe.left,
                !.since = IF pipe.since < DebounceTicks THEN pipe.since + 1
                          ELSE pipe.since]
  /\ UNCHANGED uiVars
  /\ filterUnchanged

\* the timer of time.AfterFunc expires: its function is started in a
\* goroutine of its own
timerFire ==
  /\ pipe.timer = "armed"
  /\ pipe.left = 0
  /\ pipe' = [pipe EXCEPT !.timer = "fired",
                          !.cbs = Append(pipe.cbs,
                                         [pc |-> "query", filtered |-> <<>>])]
  /\ UNCHANGED uiVars
  /\ filterUnchanged

\* the callback: filtered := ui.storage.Query(latestQuery), with the value
\* latestQuery has when the callback gets to run
callbackQuery(i) ==
  /\ i \in 1..Len(pipe.cbs)
  /\ pipe.cbs[i].pc = "query"
  /\ pipe' = [pipe EXCEPT
                !.cbs[i] = [pc |-> "send",
                            filtered |-> Query(passwords, pipe.latestQuery)],
                !.runs = pipe.runs + 1]
  /\ UNCHANGED uiVars
  /\ filterUnchanged

\* the callback: select { case ui.queryResults <- filtered: default: }
callbackSend(i) ==
  /\ i \in 1..Len(pipe.cbs)
  /\ pipe.cbs[i].pc = "send"
  /\ pipe' = [pipe EXCEPT
                !.queryResults = TrySend(pipe.queryResults, ResultCap,
                                         pipe.cbs[i].filtered),
                !.cbs = Without(pipe.cbs, i)]
  /\ UNCHANGED uiVars
  /\ filterUnchanged

NextFilter ==
  \/ frameEvent
  \/ \E text \in EditorTexts : frameChangeEvent(text)
  \/ destroyEvent
  \/ workerReceive
  \/ workerStop
  \/ filterTick
  \/ timerFire
  \/ \E i \in 1..MaxSubmits : callbackQuery(i)
  \/ \E i \in 1..MaxSubmits : callbackSend(i)

SpecFilter == InitFilter /\ [][NextFilter]_vars

\* --------------------------------------------------------- storage.Init
\* storage.Init over the configured paths, home directories and candidate
\* directories it can meet; the store it finds is empty

InitBoot ==
  /\ ClipInit
  /\ disk = [p \in FsPaths |-> NoFile]
  /\ events = <<>>
  /\ dropped = FALSE
  /\ edits = 0
  /\ writes = 0
  /\ uiOps = 0
  /\ cache = <<>>
  /\ passwords = <<>>
  /\ watcher = "idle"
  /\ ia = [c \in Ctx |-> IdleIndexAll]
  /\ ui = [pc |-> "idle", path |-> <<>>, res |-> ZeroStr]
  /\ query = <<>>
  /\ filtered = <<>>
  /\ selectedIdx = 0
  /\ editMode = FALSE
  /\ createMode = FALSE
  /\ lastEv = [p \in EntryPaths |-> "none"]
  /\ got = [p \in EntryPaths |-> NoFile]
  /\ written = [p \in EntryPaths |-> NoFile]
  /\ call = IdleCall
  /\ pipe = IdlePipe
  /\ cacheMutex = Unlocked
  /\ acc = [c \in Ctx |-> IdleAccess]
  /\ editPath = <<>>
  /\ copied = <<>>
  /\ \E basePath \in {<<>>, Root}, homeDir \in {<<>>, HomeDir},
        fs \in [CandidatePaths -> FsKinds] :
       boot = [pc |-> "init", basePath |-> basePath, homeDir |-> homeDir,
               fs |-> fs, path |-> <<>>, err |-> FALSE]

\* storage.Init: findPasswordStore, and on success IndexAll (over the empty
\* store, with no subscriber yet) and watch; on failure it returns nil, err
storageInit ==
  /\ boot.pc = "init"
  /\ LET r == findPasswordStore(boot.basePath, boot.homeDir, boot.fs) IN
     boot' = [boot EXCEPT !.pc = IF r.err THEN "failed" ELSE "run",
                          !.path = r.path, !.err = r.err]
  /\ passwords' = IndexOf(Listing(disk))
  /\ UNCHANGED <<disk, events, dropped, edits, writes, uiOps, cache, watcher,
                 ia, ui, uiVars, lastEv, got, written, call, status, clipOnly, pipe,
                 lockVars, editPath, copied>>

NextBoot == storageInit

SpecBoot == InitBoot /\ [][NextBoot]_vars

\* ------------------------------------------------------- Storage.index
\* Storage.index over entry names of every length up to MaxNameLen.  A Go
\* string is a sequence of bytes and len() and slicing count bytes: a name is
\* kept here byte by byte, a letter outside ASCII taking the two bytes of its
\* UTF-8 encoding (a lead byte and a continuation byte).

LeadByte == "D1"
ContByte == "8F"
\* n ASCII letters
Ascii(n) == [i \in 1..n |-> IF i % 3 = 0 THEN "z" ELSE IF i % 3 = 1 THEN "x"
                                                  ELSE "y"]
\* k letters of two bytes each
TwoByte(k) == [i \in 1..(2 * k) |-> IF i % 2 = 1 THEN LeadByte ELSE ContByte]

LongNames ==
  {Ascii(n) : n \in 0..MaxNameLen}
    \cup {<<"d">> \o Sep \o Ascii(n) : n \in 0..(MaxNameLen - 2)}
    \cup {TwoByte(k) : k \in 0..(MaxNameLen \div 2)}
    \cup {<<"x">> \o TwoByte(k) : k \in 0..((MaxNameLen - 1) \div 2)}

\* a rebuild whose walk is about to hand one such entry file to Storage.index
InitName ==
  /\ ClipInit
  /\ disk = [p \in FsPaths |-> NoFile]
  /\ events = <<>>
  /\ dropped = FALSE
  /\ edits = 0
  /\ writes = 0
  /\ uiOps = 0
  /\ cache = <<>>
  /\ passwords = <<>>
  /\ watcher = "index"
  /\ \E name \in LongNames :
       ia = [c \in Ctx |-> IF c = "watch"
                           THEN [IdleIndexAll EXCEPT
                                   !.pc = "walk",
                                   !.todo = <<FullPath(name)>>]
                           ELSE IdleIndexAll]
  /\ ui = [pc |-> "idle", path |-> <<>>, res |-> ZeroStr]
  /\ query = <<>>
  /\ filtered = <<>>
  /\ selectedIdx = 0
  /\ editMode = FALSE
  /\ createMode = FALSE
  /\ lastEv = [p \in EntryPaths |-> "none"]
  /\ got = [p \in EntryPaths |-> NoFile]
  /\ written = [p \in EntryPaths |-> NoFile]
  /\ call = IdleCall
  /\ boot = Booted
  /\ pipe = IdlePipe
  /\ cacheMutex = Unlocked
  /\ acc = [c \in Ctx |-> IdleAccess]
  /\ editPath = <<>>
  /\ copied = <<>>

NextName ==
  \/ \E c \in Ctx : indexAllVisit(c)
  \/ \E c \in Ctx : indexAllPrune(c)
  \/ \E c \in Ctx : indexAllPublish(c)

SpecName == InitName /\ [][NextName]_vars

\* ------------------------------------------------------- Storage.Query
\* Storage.Query over index snapshots and search terms: the user has typed a
\* term into the search editor (ui.query) and a rebuild is about to publish,
\* whose subscriber calls ui.updateQuery

Tab == "\t"
\* the characters typed into the search editor
TermChars == {"a", "b", "A", " ", Tab}
Terms == UNION {[1..n -> TermChars] : n \in 0..MaxTermLen}

\* entry files whose names differ in case and in the order of their letters
QueryOrder == <<FullPath(<<"B", "a">>), FullPath(<<"a", "b">>),
                FullPath(<<"b">>)>>
QueryListings ==
  {SelectSeq(QueryOrder, LAMBDA p : p \in keep) :
     keep \in SUBSET {QueryOrder[i] : i \in 1..Len(QueryOrder)}}
Snapshots == {IndexOf(l) : l \in QueryListings}

InitQuery ==
  /\ ClipInit
  /\ disk = [p \in FsPaths |-> NoFile]
  /\ events = <<>>
  /\ dropped = FALSE
  /\ edits = 0
  /\ writes = 0
  /\ uiOps = 0
  /\ cache = <<>>
  /\ passwords \in Snapshots
  /\ watcher = "index"
  /\ ia = [c \in Ctx |-> IF c = "watch"
                          THEN [IdleIndexAll EXCEPT !.pc = "publish",
                                                     !.n = Len(passwords)]
                          ELSE IdleIndexAll]
  /\ ui = [pc |-> "idle", path |-> <<>>, res |-> ZeroStr]
  /\ query \in Terms
  /\ filtered = <<>>
  /\ selectedIdx = 0
  /\ editMode = FALSE
  /\ createMode = FALSE
  /\ lastEv = [p \in EntryPaths |-> "none"]
  /\ got = [p \in EntryPaths |-> NoFile]
  /\ written = [p \in EntryPaths |-> NoFile]
  /\ call = IdleCall
  /\ boot = Booted
  /\ pipe = IdlePipe
  /\ cacheMutex = Unlocked
  /\ acc = [c \in Ctx |-> IdleAccess]
  /\ editPath = <<>>
  /\ copied = <<>>

NextQuery == \E c \in Ctx : indexAllPublish(c)

SpecQuery == InitQuery /\ [][NextQuery]_vars

\* ------------------------------------------------------ claims, clipboard

\* C1: every copy arms the countdown: once a secret is on the clipboard,
\* and ticks keep firing and no further copy is made, the clipboard is
\* eventually overwritten with the empty value.
C1_CopyArmsCountdown == (clipboard # Empty) ~> (clipboard = Empty)

\* C2: a copy made while a countdown is active resets the remaining time:
\* when the countdown clears the clipboard (every copy having been taken
\* up by its clearClipboard), at least the full configured duration has
\* elapsed since the most recent copy.
C2_ResetGivesFullDuration ==
  [][\A g \in Gor :
       (/\ clr[g].pc = "expire"
        /\ clr'[g].pc = "finish"
        /\ \A h \in Gor : clr[h].pc # "entry")
       => sinceCopy >= TotalTicks]_vars

\* C3: at most one countdown tick loop is alive in every reachable state.
C3_AtMostOneLoop == Cardinality(AliveLoops) <= 1

\* ---------------------------------------------------------- claims, cache

\* C4: cache freshness: whenever every delivered change event has been fully
\* processed, the plaintext the cache holds for a path is the content of the
\* file on disk now (or what the program last wrote through for it); this
\* includes a decrypt that was in flight while the change was handled.
C4_CacheFresh ==
  (/\ events = <<>>
   /\ ~dropped
   /\ watcher = "idle"
   /\ ui.pc = "idle")
  => \A p \in DOMAIN cache :
       \/ cache[p] = disk[p]
       \/ written[p] # NoFile /\ cache[p] = written[p]

\* C5: after decrypt has succeeded for a path, a later call for that path
\* with no invalidation, prune or put of it in between does not run gpg and
\* returns the identical plaintext.
C5_SecondCallHits ==
  call.pre = "get" =>
    /\ ~call.ran
    /\ call.done
    /\ ~call.err
    /\ call.res = call.preGot

\* a call of decrypt that followed a successful one and has returned
C5_Witness ==
  /\ call.pre = "get"
  /\ call.done
  /\ call.res \in Plains

\* C6: after invalidateCache of a cached path, with no put of that path in
\* between, the next decrypt of that path has run gpg by the time it
\* returns.
C6_InvalidateForcesDecrypt ==
  (call.pre = "invalidate" /\ call.done) => call.ran

\* a call of decrypt that followed an invalidation and has returned
C6_Witness ==
  /\ call.pre = "invalidate"
  /\ call.done
  /\ call.ran
  /\ ~call.err

\* C7: when gpg fails on a cache miss, decrypt returns an error, Password
\* and Metadata return the empty string, and the cache is unchanged: no
\* entry is inserted for that path.
C7_FailureNotCached ==
  [][(ui.pc = "run" /\ ui'.pc = "idle") =>
       /\ call'.err
       /\ Password(call'.res, call'.err) = ZeroStr
       /\ Metadata(call'.res, call'.err) = ZeroStr
       /\ cache' = cache
       /\ ui.path \notin DOMAIN cache']_vars

\* a call of decrypt has returned an error while another path is cached
C7_Witness ==
  /\ call.done
  /\ call.err
  /\ call.ran
  /\ cache # <<>>

\* C8: immediately after every rebuild completes (IndexAll returns), every
\* path held in the cache is a path of the new index.
C8_CacheWithinIndex ==
  [][\A c \in Ctx :
       (ia[c].pc = "publish" /\ ia'[c].pc = "idle")
       => DOMAIN cache' \subseteq PathsOf(passwords')]_vars

\* C9: SetCached overwrites unconditionally: right after it the lookup of
\* the path is a hit with the value put, every other entry is unchanged,
\* and putting the same value again changes nothing.
C9_PutOverwrites ==
  [][(ui.pc \in {"store", "saveStore"} /\ ui'.pc # ui.pc) =>
       /\ GetCached(cache', ui.path) = <<ui.res, TRUE>>
       /\ DOMAIN cache' = DOMAIN cache \cup {ui.path}
       /\ \A q \in DOMAIN cache \ {ui.path} : cache'[q] = cache[q]
       /\ SetCached(cache', ui.path, ui.res) = cache']_vars

\* a save has put new content over the entry the decrypt had cached
C9_Witness ==
  /\ ui.pc = "saveUpdate"
  /\ lastEv[ui.path] = "put"
  /\ GetCached(cache, ui.path) = <<ui.res, TRUE>>
  /\ ui.res # P1
  /\ ui.path = PathA

\* C10: write-through: once Create or the save of edit mode has written
\* content to a path, and nothing outside has changed that path since, the
\* cache maps the path to the content written, also after the change
\* notification caused by the write itself has been processed.
C10_WriteThrough ==
  \A p \in EntryPaths :
    (written[p] # NoFile /\ ui.pc = "idle")
    => GetCached(cache, p) = <<written[p], TRUE>>

\* C11: invalidateCache(path) removes the cache entry of exactly that path
\* and leaves every other cache entry and the index unchanged; for a path
\* that does not end in ".gpg", or that is not cached, it changes nothing.
C11_InvalidateFrame ==
  [][(watcher = "idle" /\ watcher' = "index") =>
       LET path == Head(events) IN
       /\ passwords' = passwords
       /\ DOMAIN cache' = DOMAIN cache \ {path}
       /\ \A q \in DOMAIN cache' : cache'[q] = cache[q]
       /\ (~HasSuffix(path, Gpg) \/ path \notin DOMAIN cache)
            => cache' = cache]_vars

\* the entry of one path has been invalidated while another path stays
\* cached
C11_Witness ==
  /\ watcher = "index"
  /\ lastEv[PathA] = "invalidate"
  /\ PathA \notin DOMAIN cache
  /\ PathB \in DOMAIN cache

\* ---------------------------------------------------------- claims, index

\* C12: Query("") returns every entry of the current index, each exactly
\* once, in the order of the index.
C12_EmptyTermReturnsAll ==
  [][(ia["watch"].pc = "publish" /\ ia'["watch"].pc = "idle"
      /\ query = <<>>)
     => filtered' = passwords]_vars

\* the empty term has been answered over an index of three entries
C12_Witness ==
  /\ ia["watch"].pc = "idle"
  /\ status.msg = "Indexed pass entries"
  /\ query = <<>>
  /\ Len(passwords) = 3
  /\ filtered = passwords

\* C13: for a non-empty term, Query returns the index filtered, in index
\* order, to exactly the entries whose lower-cased name contains every part
\* of the lower-cased term split on whitespace (spaces and tabs, repeated,
\* leading or trailing).
C13_TermSplitOnWhitespace ==
  [][(ia["watch"].pc = "publish" /\ ia'["watch"].pc = "idle"
      /\ query # <<>>)
     => LET t == ToLower(query)
            ws(k) == t[k] \in {" ", Tab}
            isPart(i, j) ==
              /\ i <= j
              /\ \A k \in i..j : ~ws(k)
              /\ i = 1 \/ ws(i - 1)
              /\ j = Len(t) \/ ws(j + 1)
            match(p) ==
              \A i, j \in 1..Len(t) :
                isPart(i, j) => Contains(ToLower(p.Name), SubSeq(t, i, j))
        IN filtered' = SelectSeq(passwords, match)]_vars

\* C14: after a rebuild that runs with no concurrent change of the store,
\* the set of index paths equals the set of regular files under the root
\* whose name ends in ".gpg": none is missing, and nothing else (such as a
\* directory whose name ends in ".gpg") is included.
C14_IndexIsSuffixFiles ==
  [][\A c \in Ctx :
       (ia[c].pc = "publish" /\ ia'[c].pc = "idle")
       => PathsOf(passwords') =
            {p \in FsPaths : HasSuffix(p, Gpg) /\ disk[p] \notin {NoFile, Dir}}
    ]_vars

\* C15: a reader of the index (ui.updateQuery -> Storage.Query) that runs
\* while a rebuild on the other goroutine is between the reset of
\* s.passwords and its last append observes the complete index of before
\* that rebuild, never an empty or partly built one.
C15_ReaderSeesWholeIndex ==
  [][\A r \in Ctx : \A c \in Ctx \ {r} :
       (/\ \/ ia[r].pc = "publish" /\ ia'[r].pc = "idle"
           \/ /\ r = "ui"
              /\ ui.pc \in {"saveUpdate", "created"}
              /\ ui'.pc = "idle"
        /\ ia[c].pc = "walk"
        /\ \E k \in 1..Len(ia[c].todo) : HasSuffix(ia[c].todo[k], Gpg))
       => /\ PathsOf(passwords) = ia[c].oldPaths
          /\ Len(passwords) = Cardinality(ia[c].oldPaths)]_vars

\* C16: in every reachable state no two entries of the index share a path,
\* also when the rebuild that Create runs overlaps a rebuild of the watcher.
C16_IndexPathsUnique ==
  \A i, j \in 1..Len(passwords) :
    i # j => passwords[i].Path # passwords[j].Path

\* C17: the name of an entry is a function of its path and the root only:
\* the path without the root prefix, the ".gpg" suffix and one leading
\* separator; when that string is longer than 40 characters, "..." followed
\* by its last 40 characters; a string of at most 40 characters is kept
\* unchanged; deriving the name again gives the same string.
C17_NameFromPath ==
  \A e \in 1..Len(passwords) :
    LET path == passwords[e].Path
        str == SubSeq(path, Len(Root) + Len(Sep) + 1, Len(path) - Len(Gpg))
        chars(from) == Cardinality({i \in from..Len(str) : str[i] # ContByte})
        last40 == CHOOSE j \in 1..Len(str) :
                    str[j] # ContByte /\ chars(j) = MaxLen
    IN /\ passwords[e].Name =
            IF chars(1) > MaxLen
            THEN Ellipsis \o SubSeq(str, last40, Len(str))
            ELSE str
       /\ passwords[e].Name = NameOf(path)

\* C18: no entry of the index has a display name longer than the bound of
\* 40 characters, whatever the length of its path.
C18_NameWithinBound ==
  \A e \in 1..Len(passwords) :
    Cardinality({i \in 1..Len(passwords[e].Name) :
                   passwords[e].Name[i] # ContByte}) <= MaxLen

\* C19: root resolution tries the configured path, then ~/.password-store,
\* then ~/password-store, in that order, skipping an empty configured path;
\* the root becomes the first candidate that symlink-resolves and exists;
\* Init returns the error, and no Storage, if and only if no candidate is
\* valid.
C19_RootResolution ==
  boot.pc # "init" =>
    LET home(n) == IF boot.homeDir = <<>> THEN n
                   ELSE boot.homeDir \o <<"/">> \o n
        cands == <<boot.basePath, home(<<".password-store">>),
                   home(<<"password-store">>)>>
        valid(k) == /\ cands[k] # <<>>
                    /\ boot.fs[cands[k]] \in {"dir", "link"}
        resolved(k) == IF boot.fs[cands[k]] = "link"
                       THEN Target(cands[k]) ELSE cands[k]
    IN /\ boot.err <=> \A k \in 1..3 : ~valid(k)
       /\ boot.pc = "failed" <=> boot.err
       /\ ~boot.err =>
            \E k \in 1..3 : /\ valid(k)
                            /\ \A j \in 1..(k - 1) : ~valid(j)
                            /\ boot.path = resolved(k)

\* Init has passed over a configured path that does not resolve and over
\* a first home candidate that is gone, and taken the second home
\* candidate, a symbolic link
C19_Witness ==
  /\ boot.pc = "run"
  /\ boot.basePath = Root
  /\ boot.fs[Root] = "none"
  /\ boot.fs[Join(HomeDir, DotStore)] = "gone"
  /\ boot.homeDir = HomeDir
  /\ boot.path = Target(Join(HomeDir, PlainStore))

\* C20: each rebuild that completes invokes the subscriber once, with a
\* status that carries the number of entries of the new Index, after the
\* Index and the cache prune of that rebuild are in place: the count in the
\* status is the number of entries the rebuild has put into the Index, and
\* that is the length of the Index the subscriber then reads.
C20_PublishCountsNewIndex ==
  [][\A c \in Ctx :
       (ia[c].pc = "publish" /\ ia'[c].pc = "idle")
       => /\ status'.msg = "Indexed pass entries"
          /\ status'.n = ia[c].n
          /\ Len(passwords') = ia[c].n
          /\ filtered' = Query(passwords', query')]_vars

\* C21: the Change Notifier handles events one at a time in arrival order;
\* for each event it first invalidates the cache entry of the event's path
\* and only then rebuilds the Index, so the subscriber is notified of that
\* rebuild after the invalidation: an event leaves the channel only while
\* the watcher is idle, it is the oldest one, the same step removes its path
\* from the cache before anything of the Index changes, and the watcher's
\* rebuild passes reset, walk and publish in this order from there.
C21_InvalidateThenRebuild ==
  [][/\ Len(events') < Len(events)
          => /\ watcher = "idle" /\ watcher' = "index"
             /\ events' = Tail(events)
             /\ HasSuffix(Head(events), Gpg) => Head(events) \notin DOMAIN cache'
             /\ passwords' = passwords
             /\ status' = status
             /\ ia["watch"].pc = "idle" /\ ia'["watch"].pc = "reset"
     /\ ia'["watch"].pc # ia["watch"].pc
          => /\ <<ia["watch"].pc, ia'["watch"].pc>> \in
                  {<<"idle", "reset">>, <<"reset", "walk">>,
                   <<"walk", "publish">>, <<"publish", "idle">>}
             /\ ia["watch"].pc = "idle" => Len(events') < Len(events)]_vars

\* the watcher has invalidated a cached path and its rebuild has notified
\* the subscriber
C21_Witness ==
  /\ watcher = "idle"
  /\ writes = 0
  /\ status.msg = "Indexed pass entries"
  /\ \E p \in EntryPaths : lastEv[p] = "invalidate"

\* C22: every change of an entry file under the watched root eventually
\* causes the invalidation of that path's cache entry followed by a rebuild,
\* also when it arrives while an earlier event is being processed: the
\* one-slot channel loses no change, so right after a change of a file its
\* path is waiting in the channel for the watcher.
C22_NoChangeLost ==
  [][\A p \in EntryPaths :
       disk'[p] # disk[p]
       => \E k \in 1..Len(events') : events'[k] = p]_vars

\* the filter worker has nothing left to do: no term waits in queryInput,
\* no timer is armed, no callback runs, no result waits in queryResults
PipeQuiet ==
  /\ pipe.queryInput = <<>>
  /\ pipe.timer # "armed"
  /\ pipe.cbs = <<>>
  /\ pipe.queryResults = <<>>

\* C23: if submit calls stop, the consumer eventually receives the result
\* of query(t) for the last term t handed to submit, and an older term's
\* result is never the last one delivered: once the pipeline has come to
\* rest after a submit, with the window open, the list the UI shows is the
\* result of Query for the text of the search editor.
C23_LatestTermWins ==
  (pipe.submits > 0 /\ pipe.loop = "run" /\ PipeQuiet)
    => filtered = Query(passwords, query)

\* C24: when the pipeline publishes a result while an earlier one is still
\* unconsumed in the single-slot result channel, the earlier result is
\* replaced: after a callback has published, the consumer's next read
\* yields the result of that callback.
C24_ResultReplaced ==
  [][Len(pipe'.cbs) < Len(pipe.cbs)
       => \E i \in 1..Len(pipe.cbs) :
            /\ pipe.cbs[i].pc = "send"
            /\ pipe'.cbs = Without(pipe.cbs, i)
            /\ pipe'.queryResults # <<>>
            /\ Head(pipe'.queryResults) = pipe.cbs[i].filtered]_vars

\* C25: debounce coalescing: at most one delayed execution is pending at
\* any time, Query runs only when 50 ms have passed without a further
\* submit, and a burst of submits followed by a quiet period leads to
\* exactly one execution of Query.
C25_OneExecutionPerBurst ==
  [][/\ pipe.timer = "armed" => \A i \in 1..Len(pipe.cbs) :
                                   pipe.cbs[i].pc # "query"
     /\ pipe'.runs # pipe.runs => pipe.since >= DebounceTicks
     /\ (pipe.submits > 0 /\ pipe.burst /\ pipe.worker = "select" /\ PipeQuiet)
          => pipe.runs = 1]_vars

\* C26: after the stop signal has been delivered to the debounce worker the
\* pipeline executes no further query and publishes no further result, also
\* for a delayed execution that was pending or firing when the stop
\* arrived.
C26_NothingAfterStop ==
  [][pipe.worker = "done"
       => /\ pipe'.runs = pipe.runs
          /\ pipe'.queryResults = pipe.queryResults]_vars

\* C27: in every reachable state in which the countdown is active the
\* published fraction is between 0 and 1 (countdown is the numerator over
\* ClipSeconds, never negative, so the fraction 1 is ClipSeconds), also
\* right after a copy that hits an active countdown.
C27_FractionInRange ==
  countingDown => Leq(countdown, Float(ClipSeconds))

\* C28: an uninterrupted countdown of D seconds with tick T starts at
\* fraction 1.0, publishes remaining/total on every tick, and on exactly the
\* ceil(D/T)-th tick, and on no earlier one, writes the empty value to the
\* clipboard, sets the status to "Clipboard cleared" and becomes idle.  With
\* a single copy made, sinceCopy is the number of ticks of its countdown.
C28_ClearsOnLastTick ==
  [][\A g \in Gor :
       (spawned = 1 /\ spawned' = 1) =>
         /\ (clr[g].pc = "loop" /\ clr'[g] # clr[g])
              => /\ countdown' = clr[g].remaining
                 /\ sinceCopy = 0 => countdown' = Float(ClipSeconds)
                 /\ clr'[g].pc = "expire" <=> sinceCopy' = TotalTicks
                 /\ clipboard' = clipboard
         /\ (clr[g].pc = "expire" /\ clr'[g].pc # "expire")
              => clipboard' = Empty
         /\ (clr[g].pc = "finish" /\ clr'[g].pc # "finish")
              => /\ status' = St("Clipboard cleared")
                 /\ ~countingDown'
                 /\ clipboard' = Empty]_vars

\* C29: signalling cancellation to a running countdown never blocks: for
\* any number of copy actions in quick succession every clearClipboard
\* that handles a copy terminates, none stays blocked on countdownDone: a
\* clearClipboard that waits to send while the channel is full has a tick
\* loop, or a clearClipboard about to start one, that will receive.
C29_SignalNeverBlocks ==
  \A g \in Gor :
    (clr[g].pc = "send" /\ countdownDone >= DoneCap)
      => \E h \in Gor : clr[h].pc \in {"entry", "loop"}

C31_OneRebuildAtATime ==
  Cardinality({c \in Ctx : ia[c].pc # "idle"}) <= 1

\* ------------------------------------------------- the lock of the cache
\* Every access to s.cache with its calls on s.cacheMutex as steps of their
\* own: the UI goroutine looks up (decrypt, enterEditMode), puts (decrypt,
\* saveEditMode) and prunes (Create's IndexAll); the goroutine of
\* Storage.watch invalidates and prunes.

CacheOps ==
  [ui |-> {"get", "put", "prune"}, watch |-> {"invalidate", "prune"}]

cacheUnchanged ==
  UNCHANGED <<disk, events, dropped, edits, writes, uiOps, passwords, watcher,
              ia, ui, uiVars, lastEv, got, written, call, status, clipOnly,
              boot, pipe, editPath, copied>>

\* sync.RWMutex: RLock returns once no writer holds the lock, Lock once
\* nobody holds it
CanRLock(m) == ~m.writer

CanLockIgnoresReaders(m) == ~m.writer

CanLock(m) == m.readers = 0 /\ ~m.writer

InitCache == ClipInit /\ StorageInit

\* a goroutine enters GetCached, SetCached, invalidateCache or the part of
\* IndexAll after the walk
cacheCall(c, op, path) ==
  /\ acc[c].pc = "idle"
  /\ op \in CacheOps[c]
  /\ acc' = [acc EXCEPT ![c] = [pc |-> "entry", op |-> op,
                                path |-> IF op = "prune" THEN <<>> ELSE path,
                                todo |-> {}]]
  /\ UNCHANGED <<cache, cacheMutex>>
  /\ cacheUnchanged

\* invalidateCache for a path without the suffix: returns, nothing locked
invalidateSkip(c) ==
  /\ acc[c].pc = "entry"
  /\ acc[c].op = "invalidate"
  /\ ~HasSuffix(acc[c].path, Gpg)
  /\ acc' = [acc EXCEPT ![c] = IdleAccess]
  /\ UNCHANGED <<cache, cacheMutex>>
  /\ cacheUnchanged

\* s.cacheMutex.RLock() in GetCached
RLock(c) ==
  /\ acc[c].pc = "entry"
  /\ acc[c].op = "get"
  /\ CanRLock(cacheMutex)
  /\ cacheMutex' = [cacheMutex EXCEPT !.readers = @ + 1]
  /\ acc' = [acc EXCEPT ![c].pc = "held"]
  /\ UNCHANGED cache
  /\ cacheUnchanged

\* s.cacheMutex.Lock() in SetCached, invalidateCache and IndexAll; the
\* prune ranges over the keys the cache has now
Lock(c) ==
  /\ acc[c].pc = "entry"
  /\ acc[c].op \in {"put", "invalidate", "prune"}
  /\ acc[c].op = "invalidate" => HasSuffix(acc[c].path, Gpg)
  /\ CanLock(cacheMutex)
  /\ cacheMutex' = [cacheMutex EXCEPT !.writer = TRUE]
  /\ acc' = [acc EXCEPT ![c].pc = "held",
                        ![c].todo = IF acc[c].op = "prune"
                                    THEN DOMAIN cache ELSE {}]
  /\ UNCHANGED cache
  /\ cacheUnchanged

\* cached, ok := s.cache[path]
cacheGet(c) ==
  /\ acc[c].pc = "held"
  /\ acc[c].op = "get"
  /\ acc' = [acc EXCEPT ![c].pc = "unlock"]
  /\ UNCHANGED <<cache, cacheMutex>>
  /\ cacheUnchanged

\* s.cache[path] = value
cachePut(c, value) ==
  /\ acc[c].pc = "held"
  /\ acc[c].op = "put"
  /\ cache' = SetCached(cache, acc[c].path, value)
  /\ acc' = [acc EXCEPT ![c].pc = "unlock"]
  /\ UNCHANGED cacheMutex
  /\ cacheUnchanged

\* delete(s.cache, path) in invalidateCache
cacheDelete(c) ==
  /\ acc[c].pc = "held"
  /\ acc[c].op = "invalidate"
  /\ cache' = invalidateCache(cache, acc[c].path)
  /\ acc' = [acc EXCEPT ![c].pc = "unlock"]
  /\ UNCHANGED cacheMutex
  /\ cacheUnchanged

\* one round of `for path := range s.cache` in IndexAll
cachePrune(c) ==
  /\ acc[c].pc = "held"
  /\ acc[c].op = "prune"
  /\ IF acc[c].todo = {}
     THEN /\ acc' = [acc EXCEPT ![c].pc = "unlock"]
          /\ UNCHANGED cache
     ELSE \E q \in acc[c].todo :
            /\ cache' = IF q \in PathsOf(passwords)
                        THEN cache
                        ELSE [r \in DOMAIN cache \ {q} |-> cache[r]]
            /\ acc' = [acc EXCEPT ![c].todo = @ \ {q}]
  /\ UNCHANGED cacheMutex
  /\ cacheUnchanged

\* s.cacheMutex.RUnlock() (deferred) in GetCached
RUnlock(c) ==
  /\ acc[c].pc = "unlock"
  /\ acc[c].op = "get"
  /\ cacheMutex' = [cacheMutex EXCEPT !.readers = @ - 1]
  /\ acc' = [acc EXCEPT ![c] = IdleAccess]
  /\ UNCHANGED cache
  /\ cacheUnchanged

\* s.cacheMutex.Unlock()
Unlock(c) ==
  /\ acc[c].pc = "unlock"
  /\ acc[c].op # "get"
  /\ cacheMutex' = [cacheMutex EXCEPT !.writer = FALSE]
  /\ acc' = [acc EXCEPT ![c] = IdleAccess]
  /\ UNCHANGED cache
  /\ cacheUnchanged

NextCache ==
  \/ \E c \in Ctx, op \in {"get", "put", "invalidate", "prune"},
        path \in FsPaths : cacheCall(c, op, path)
  \/ \E c \in Ctx : invalidateSkip(c)
  \/ \E c \in Ctx : RLock(c)
  \/ \E c \in Ctx : Lock(c)
  \/ \E c \in Ctx : cacheGet(c)
  \/ \E c \in Ctx, value \in {P1, P2} : cachePut(c, value)
  \/ \E c \in Ctx : cacheDelete(c)
  \/ \E c \in Ctx : cachePrune(c)
  \/ \E c \in Ctx : RUnlock(c)
  \/ \E c \in Ctx : Unlock(c)

SpecCache == InitCache /\ [][NextCache]_vars

\* a goroutine between its lock call returning and its unlock call
InCache(c) == acc[c].pc \in {"held", "unlock"}

\* C32: accesses to the cache exclude each other under the read/write lock:
\* a put, an invalidate and a prune overlap with no other access, and a
\* lookup overlaps only with lookups.
C32_CacheExclusive ==
  \A c \in Ctx, d \in Ctx :
    (c # d /\ InCache(c) /\ InCache(d))
      => (acc[c].op = "get" /\ acc[d].op = "get")

\* the watcher prunes under the lock while the UI goroutine is held up in
\* GetCached
C32_Witness ==
  /\ acc["watch"].pc = "held" /\ acc["watch"].op = "prune"
  /\ acc["watch"].todo # {}
  /\ acc["ui"].pc = "entry" /\ acc["ui"].op = "get"

\* C33: saving in edit mode writes the edited content to the path of the
\* entry edit mode was entered for, and puts it in the cache under that
\* path, whatever rebuilds and subscriber calls came in between.
C33_SavesEditedEntry ==
  [][/\ (ui.pc = "idle" /\ ui'.pc = "saveStore") => ui'.path = editPath
     /\ (ui.pc = "saveStore" /\ ui'.pc = "saveUpdate")
          => (ui.path = editPath /\ ui.path \in DOMAIN cache'
              /\ cache'[ui.path] = ui.res)]_vars

\* C34: no cancellation signal is left in ui.countdownDone once the loop it
\* was sent to has exited: whenever the channel holds a signal, a countdown
\* loop is running to take it.
C34_NoStaleSignal ==
  countdownDone > 0 => \E g \in Gor : clr[g].pc = "loop"

\* ------------------------------------------- the selection, two goroutines
\* The subscriber registered by ui.New runs on the goroutine that called
\* IndexAll (the watcher's); copyToClipboard, enterEditMode and saveEditMode
\* run on the UI goroutine. Neither side takes a lock for ui.filtered and
\* ui.selectedIdx, so the statements of both interleave.

selectUnchanged ==
  UNCHANGED <<disk, events, dropped, edits, writes, uiOps, cache, watcher,
              query, editMode, createMode, lastEv, got, written, call,
              clipOnly, boot, pipe, lockVars, editPath, copied>>

InitSelect ==
  /\ ClipInit
  /\ disk = [p \in FsPaths |-> NoFile]
  /\ events = <<>>
  /\ dropped = FALSE
  /\ edits = 0
  /\ writes = 0
  /\ uiOps = 0
  /\ cache = <<>>
  /\ passwords \in Snapshots
  /\ watcher = "index"
  /\ ia = [c \in Ctx |-> IdleIndexAll]
  /\ ui = [pc |-> "idle", path |-> <<>>, res |-> ZeroStr]
  /\ query = <<>>
  /\ filtered = Query(passwords, query)
  /\ selectedIdx = 0
  /\ editMode = FALSE
  /\ createMode = FALSE
  /\ lastEv = [p \in EntryPaths |-> "none"]
  /\ got = [p \in EntryPaths |-> NoFile]
  /\ written = [p \in EntryPaths |-> NoFile]
  /\ call = IdleCall
  /\ boot = Booted
  /\ pipe = IdlePipe
  /\ cacheMutex = Unlocked
  /\ acc = [c \in Ctx |-> IdleAccess]
  /\ editPath = <<>>
  /\ copied = <<>>

\* the watcher's IndexAll up to its call of publishUpdate: the store has
\* changed and s.passwords is the Index of what the walk found
rebuildToPublish(snap) ==
  /\ ia["watch"].pc = "idle"
  /\ passwords' = snap
  /\ ia' = [ia EXCEPT !["watch"].pc = "publish", !["watch"].n = Len(snap)]
  /\ UNCHANGED <<ui, filtered, selectedIdx, status>>
  /\ selectUnchanged

\* the subscriber: ui.status = status, then the first statement of
\* ui.updateQuery, ui.filtered = ui.storage.Query(ui.query)
subscriberAssign ==
  /\ ia["watch"].pc = "publish"
  /\ status' = [msg |-> "Indexed pass entries", n |-> Len(passwords)]
  /\ filtered' = Query(passwords, query)
  /\ ia' = [ia EXCEPT !["watch"].pc = "clamp"]
  /\ UNCHANGED <<ui, passwords, selectedIdx>>
  /\ selectUnchanged

\* the second statement of ui.updateQuery:
\* if ui.selectedIdx >= len(ui.filtered) { ui.selectedIdx = 0 }
subscriberReset ==
  /\ ia["watch"].pc = "clamp"
  /\ selectedIdx' = IF selectedIdx >= Len(filtered) THEN 0 ELSE selectedIdx
  /\ ia' = [ia EXCEPT !["watch"] = IdleIndexAll]
  /\ UNCHANGED <<ui, passwords, filtered, status>>
  /\ selectUnchanged

\* copyToClipboard, enterEditMode, saveEditMode: the test
\* ui.selectedIdx >= len(ui.filtered) and the return it guards
selectionCheck ==
  /\ ui.pc = "idle"
  /\ IF selectedIdx >= Len(filtered)
     THEN /\ status' = St("No password selected")
          /\ UNCHANGED ui
     ELSE /\ ui' = [pc |-> "checked", path |-> <<>>, res |-> ZeroStr]
          /\ UNCHANGED status
  /\ UNCHANGED <<passwords, ia, filtered, selectedIdx>>
  /\ selectUnchanged

\* item := ui.filtered[ui.selectedIdx]; an index out of range is a run-time
\* panic of the UI goroutine
selectionUse ==
  /\ ui.pc = "checked"
  /\ ui' = IF selectedIdx < Len(filtered)
           THEN [pc |-> "idle", path |-> filtered[selectedIdx + 1].Path,
                 res |-> ZeroStr]
           ELSE [pc |-> "panic", path |-> <<>>, res |-> ZeroStr]
  /\ UNCHANGED <<passwords, ia, filtered, selectedIdx, status>>
  /\ selectUnchanged

NextSelect ==
  \/ \E snap \in Snapshots : rebuildToPublish(snap)
  \/ subscriberAssign
  \/ subscriberReset
  \/ moveSelectionUp
  \/ moveSelectionDown
  \/ selectionCheck
  \/ selectionUse

SpecSelect == InitSelect /\ [][NextSelect]_vars

\* C35: the selection index is valid whenever it is used: an access
\* ui.filtered[ui.selectedIdx] happens with 0 <= selectedIdx < len(filtered).
C35_SelectionInRange ==
  ui.pc = "checked" => (0 <= selectedIdx /\ selectedIdx < Len(filtered))

\* ------------------------------------- the countdown and the selection
\* A store with two entries, a filter term in effect, and the user copying
\* the selected entry and moving the selection while the countdown of
\* clearClipboard reports its progress.

InitShow ==
  /\ ClipInit
  /\ disk = [p \in FsPaths |-> IF p = PathA THEN P1
                               ELSE IF p = PathB THEN P2 ELSE NoFile]
  /\ events = <<>>
  /\ dropped = FALSE
  /\ edits = 0
  /\ writes = 0
  /\ uiOps = 0
  /\ cache = <<>>
  /\ passwords = IndexOf(Listing(disk))
  /\ watcher = "idle"
  /\ ia = [c \in Ctx |-> IdleIndexAll]
  /\ ui = [pc |-> "idle", path |-> <<>>, res |-> ZeroStr]
  /\ query \in {<<>>, <<"a">>, <<"b">>}
  /\ filtered = Query(passwords, query)
  /\ selectedIdx = 0
  /\ editMode = FALSE
  /\ createMode = FALSE
  /\ lastEv = [p \in EntryPaths |-> "none"]
  /\ got = [p \in EntryPaths |-> NoFile]
  /\ written = [p \in EntryPaths |-> NoFile]
  /\ call = IdleCall
  /\ boot = Booted
  /\ pipe = IdlePipe
  /\ cacheMutex = Unlocked
  /\ acc = [c \in Ctx |-> IdleAccess]
  /\ editPath = <<>>
  /\ copied = <<>>

\* UI.copyToClipboard on the selected item, clipboard.WriteAll succeeded
copySelected(v) ==
  /\ spawned < MaxCopies
  /\ selectedIdx < Len(filtered)
  /\ clipboard' = v
  /\ copied' = filtered[selectedIdx + 1].Name
  /\ status' = St("Copied to clipboard")
  /\ spawned' = spawned + 1
  /\ clr' = [clr EXCEPT ![spawned + 1] =
               [pc |-> "entry", remaining |-> Float(0)]]
  /\ sinceCopy' = 0
  /\ UNCHANGED <<countdown, countingDown, countdownDone, disk, events,
                 dropped, edits, writes, uiOps, cache, passwords, watcher, ia,
                 ui, uiVars, lastEv, got, written, call, boot, pipe, lockVars,
                 editPath>>

NextShow ==
  \/ \E v \in Secrets : copySelected(v)
  \/ moveSelectionUp
  \/ moveSelectionDown
  \/ ClipStep

SpecShow == InitShow /\ [][NextShow]_vars

\* C36: the name in every progress status "Will clear <name> in <n>
\* seconds" is the name of the entry whose secret was copied.
C36_StatusNamesCopiedEntry ==
  status.msg = "Will clear" => status.name = copied

\* ------------------------------------------- a rebuild whose walk fails
\* The store cannot be read when the watcher rebuilds (the directory has
\* been made unreadable, or os.Lstat of it fails): filepath.Walk hands the
\* error to Storage.index with the path of the store and returns what
\* Storage.index returns.

\* the result of Storage.index, whatever path and error it is given
indexResult(path, err) == FALSE

\* filepath.Walk over a root it cannot read: the walk function is called
\* once, for the root, and its result is the result of the walk
WalkOfUnreadable(root) == indexResult(root, TRUE)

InitWalk ==
  /\ ClipInit
  /\ disk \in [FsPaths -> {NoFile, P1, P2, Other}]
  /\ disk[PathA] = P1
  /\ disk[PathB] \in {NoFile, P2}
  /\ disk[PathN] = Other
  /\ events \in {<<PathN>>, <<PathA>>}
  /\ dropped = FALSE
  /\ edits = 0
  /\ writes = 0
  /\ uiOps = 0
  /\ \E held \in SUBSET {p \in EntryPaths : disk[p] # NoFile} :
       cache = [p \in held |-> disk[p]]
  /\ passwords = IndexOf(Listing(disk))
  /\ watcher = "idle"
  /\ ia = [c \in Ctx |-> IdleIndexAll]
  /\ ui = [pc |-> "idle", path |-> <<>>, res |-> ZeroStr]
  /\ query \in {<<>>, <<"a">>}
  /\ filtered = Query(passwords, query)
  /\ selectedIdx \in {0, 1}
  /\ selectedIdx < Len(filtered)
  /\ editMode = FALSE
  /\ createMode = FALSE
  /\ lastEv = [p \in EntryPaths |-> IF p \in DOMAIN cache THEN "get"
                                    ELSE "none"]
  /\ got = [p \in EntryPaths |-> IF p \in DOMAIN cache THEN disk[p]
                                 ELSE NoFile]
  /\ written = [p \in EntryPaths |-> NoFile]
  /\ call = IdleCall
  /\ boot = Booted
  /\ pipe = IdlePipe
  /\ cacheMutex = Unlocked
  /\ acc = [c \in Ctx |-> IdleAccess]
  /\ editPath = <<>>
  /\ copied = <<>>

\* oldPaths is collected, s.passwords = nil, and filepath.Walk fails on the
\* store: Storage.index is called for s.path with the error, appends
\* nothing (no ".gpg" suffix), and the walk is over; IndexAll returns here
\* if the walk's result is an error
indexAllWalkFails(c) ==
  /\ ia[c].pc = "reset"
  /\ passwords' = <<>>
  /\ ia' = [ia EXCEPT ![c] =
              IF WalkOfUnreadable(Root)
              THEN IdleIndexAll
              ELSE [pc |-> "walk", oldPaths |-> PathsOf(passwords),
                    todo |-> <<>>, seen |-> <<>>, n |-> 0, err |-> TRUE]]
  /\ watcher' = IF WalkOfUnreadable(Root) /\ c = "watch"
                THEN "idle" ELSE watcher
  /\ UNCHANGED <<disk, events, dropped, edits, writes, uiOps, cache, ui,
                 uiVars, lastEv, got, written, call, status, clipOnly, boot,
                 pipe, lockVars, editPath, copied>>

NextWalk ==
  \/ watchReceive
  \/ \E c \in Ctx : indexAllReset(c)
  \/ \E c \in Ctx : indexAllWalkFails(c)
  \/ \E c \in Ctx : indexAllVisit(c)
  \/ \E c \in Ctx : indexAllPrune(c)
  \/ \E c \in Ctx : indexAllPublish(c)

SpecWalk == InitWalk /\ [][NextWalk]_vars

\* C37: a rebuild whose directory walk failed returns without pruning the
\* cache and without publishing a status event: none of its steps changes
\* the cache, the status or what the subscriber sets.
C37_FailedWalkReturns ==
  [][\A c \in Ctx :
       (ia[c].err /\ ia'[c] # ia[c])
         => (cache' = cache /\ status' = status /\ filtered' = filtered)]_vars

====
